---------------------------- MODULE Spec2Model ----------------------------
(***************************************************************************)
(* Model of the streaming ASR session code of open-typeless:               *)
(*   VolcengineClient (src/main/services/asr/lib/volcengine-client.ts)     *)
(*   ASRService       (src/main/services/asr/types.ts, asr.service part)   *)
(*                                                                         *)
(* One step of the model is one macrotask of the Node event loop: an API   *)
(* call, a socket event or a timer callback, run to completion together    *)
(* with every promise continuation (microtask) it makes runnable.          *)
(* Handlers are written as functions from a world record to a world        *)
(* record, composed in the order the code calls them.                      *)
(***************************************************************************)
EXTENDS Integers, Sequences, FiniteSets, TLC

\* ------------------------------------------------------------------ bounds
\* VolcengineClient objects and WebSockets alive at once
MaxClients == 2
MaxSockets == 2
\* stop() and start() calls in progress at once
MaxStops == 2
MaxStarts == 2
\* start() calls, and sockets that open, in one run
MaxStartCalls == 1
MaxOpens == 2
\* connect() calls the owner of a client makes on it directly in one run
MaxConnects == 1
\* chunks processAudioChunk sends on one connection
MaxAudio == 2
\* grace timers one wait has pending at once
MaxGrace == 1
\* length of the recorded status sequence
LogCap == 7
MaxPipes == 3
MaxAwaiting == 2
MaxDelivered == 2

\* --------------------------------------------------------- program constants
MAX_ATTEMPTS == 5
BASE_DELAY_MS == 1000
MAX_DELAY_MS == 30000
CONNECT_TIMEOUT_MS == 30000
TIMEOUT_MS == 10000
GRACE_MS == 500
SUCCESS_STATUS == 20000000
ERROR_STATUS == 45000001

\* svc        the ASRService singleton: client, status, finalResult, lastResult
\* clients    the VolcengineClient objects
\* sockets    the WebSockets, with the handlers, timer and promise of their connect()
\* stops      the stop() calls in progress (the closure of waitForFinalResult)
\* starts     the start() calls in progress
\* env        process.env
\* statusLog  the statuses updateStatus has broadcast since the last start() call,
\*            recorded while logging is on
\* budget     the start() calls, socket openings and direct connect() calls the
\*            run may still make
\* rec        the AudioRecorder of the renderer
VARIABLES svc, clients, sockets, stops, starts, env, statusLog, logging, budget,
          rec

vars == <<svc, clients, sockets, stops, starts, env, statusLog, logging, budget,
          rec>>

\* ------------------------------------------------------------------- values
ClientIds == 1..MaxClients
SocketIds == 1..MaxSockets
StopIds == 1..MaxStops
StartIds == 1..MaxStarts

ASRStatus == {"idle", "connecting", "listening", "processing", "done", "error"}
ConnectionState == {"disconnected", "connecting", "connected", "reconnecting", "error"}

\* WebSocket.readyState
CONNECTING == "CONNECTING"
OPEN == "OPEN"
CLOSING == "CLOSING"
CLOSED == "CLOSED"

\* VOLCENGINE_CONSTANTS
NAMESPACE == "SpeechTranscriber"
DEFAULT_RESOURCE_ID == "volc.bigasr.sauc.duration"
MESSAGE_NAMES ==
  [START |-> "StartTranscription",
   AUDIO_DATA |-> "AudioData",
   STOP |-> "StopTranscription",
   TRANSCRIPTION_RESULT_CHANGED |-> "TranscriptionResultChanged",
   TRANSCRIPTION_COMPLETED |-> "TranscriptionCompleted",
   TASK_FAILED |-> "TaskFailed"]

\* ASRResult | null.  A text is a sequence of tokens; '' is <<>>.
NoResult == [type |-> "null", text |-> <<>>]
ASRResult(isFinal, text) ==
  [type |-> IF isFinal THEN "final" ELSE "interim", text |-> text]
isFinal(r) == r.type = "final"
\* a ?? b on results
Coalesce(a, b) == IF a # NoResult THEN a ELSE b

\* Error messages
ERR_TIMEOUT == "Connection timeout"
ERR_MAX == "Max reconnection attempts reached"
ERR_WS == "socket error"
ERR_CTOR == "invalid websocket arguments"
ERR_TASK == "Task failed"
ERR_STATUS == "Error status: 45000001"
ERR_SERVER == "server status message"
ERR_CONFIG == "Missing required environment variables"

Min(a, b) == IF a < b THEN a ELSE b

RECURSIVE Pow2(_)
Pow2(n) == IF n = 0 THEN 1 ELSE 2 * Pow2(n - 1)

\* ------------------------------------------------------------------ records
NoWaiter == [kind |-> "none", id |-> 0]

FreeClient ==
  [used |-> FALSE,
   config |-> [appId |-> "", accessToken |-> "", resourceId |-> ""],
   ws |-> 0,
   connectionState |-> "disconnected",
   taskId |-> 0,
   connectId |-> 0,
   audioIndex |-> 0,
   reconnectAttempts |-> 0,
   reconnectTimeoutId |-> 0,
   sessionStarted |-> FALSE,
   svcListeners |-> FALSE,
   resultHandlers |-> <<>>,
   statusHandlers |-> <<>>,
   rtimers |-> <<>>,
   wasActive |-> FALSE]

FreeSocket ==
  [used |-> FALSE,
   client |-> 0,
   readyState |-> CLOSED,
   attached |-> FALSE,
   timeout |-> FALSE,
   settled |-> "no",
   waiter |-> NoWaiter,
   connectId |-> 0,
   taskId |-> 0,
   frames |-> <<>>]

FreeStop ==
  [used |-> FALSE,
   state |-> "free",
   parent |-> 0,
   resolved |-> FALSE,
   ceiling |-> FALSE,
   grace |-> 0,
   branch |-> "none",
   value |-> NoResult]

FreeStart ==
  [used |-> FALSE,
   state |-> "free",
   config |-> [appId |-> "", accessToken |-> "", resourceId |-> ""],
   err |-> ""]

\* An entry of a step's trace (the world's field trace, empty when the step
\* starts and not part of the state): something the step made observable.
\*   emit    the client c emitted event ev (status / result / error)
\*   ui      floatingWindow.sendStatus / sendResult / sendError
\*   send    a frame was written to socket c
\*   timer   setTimeout for a reconnect of client c
\*   throw   emit('error') on a client without an error listener
Entry(kind, c, ev, status, result, err) ==
  [kind |-> kind, c |-> c, ev |-> ev, status |-> status, result |-> result, err |-> err]
Log(w, e) == [w EXCEPT !.trace = Append(@, e)]

\* The state as one record, and its write-back.
World ==
  [svc |-> svc, clients |-> clients, sockets |-> sockets, stops |-> stops,
   starts |-> starts, trace |-> <<>>, statusLog |-> statusLog, queue |-> <<>>]

Commit(w) ==
  /\ svc' = w.svc
  /\ clients' = w.clients
  /\ sockets' = w.sockets
  /\ stops' = w.stops
  /\ starts' = w.starts
  /\ statusLog' = w.statusLog
  /\ UNCHANGED <<env, logging, rec>>

\* What is left of the calls and socket openings one run may make.
Spend(what) == budget' = [budget EXCEPT ![what] = @ - 1]


\* ------------------------------------------------------------ small helpers
Remove(seq, x) == SelectSeq(seq, LAMBDA y : y # x)

Task(k, id, ok, err) == [k |-> k, id |-> id, ok |-> ok, err |-> err]
Enqueue(w, t) == [w EXCEPT !.queue = Append(@, t)]

\* ================================================================ ASRService
\* --- updateStatus: set the field, emit 'status', floatingWindow.sendStatus
updateStatus(w, status) ==
  LET w1 == [w EXCEPT !.svc.status = status]
      w2 == Log(w1, Entry("ui", 0, "status", status, NoResult, ""))
  IN [w2 EXCEPT !.statusLog =
        IF logging /\ Len(@) < LogCap THEN Append(@, status) ELSE @]

\* --- setupClientListeners: the three listeners the service puts on its client
onClientStatus(w, status) == updateStatus(w, status)

onClientResult(w, result) ==
  LET w1 == [w EXCEPT !.svc.lastResult = result,
                      !.svc.finalResult = IF isFinal(result) THEN result ELSE @]
  IN Log(w1, Entry("ui", 0, "result", "", result, ""))

onClientError(w, err) ==
  LET w1 == updateStatus(w, "error")
  IN Log(w1, Entry("ui", 0, "error", "", NoResult, err))

\* this.client?.off(event, handler of wait k)
offResult(w, k) ==
  IF w.svc.client = 0 THEN w
  ELSE [w EXCEPT !.clients[w.svc.client].resultHandlers = Remove(@, k)]

offStatus(w, k) ==
  IF w.svc.client = 0 THEN w
  ELSE [w EXCEPT !.clients[w.svc.client].statusHandlers = Remove(@, k)]

\* resolve(value) of the wait of stop call k: its continuation becomes a microtask
resolveWait(w, k, branch, value) ==
  Enqueue([w EXCEPT !.stops[k].branch = branch, !.stops[k].value = value],
          Task("stopCont", k, TRUE, ""))

\* resultHandler with its test of isFinal inverted
resultHandler_interim(w, k, result) ==
  IF ~isFinal(result) /\ ~w.stops[k].resolved
  THEN LET w1 == [w EXCEPT !.stops[k].resolved = TRUE]
           w2 == offResult(w1, k)
           w3 == [w2 EXCEPT !.stops[k].ceiling = FALSE]
       IN resolveWait(w3, k, "final", result)
  ELSE w

\* --- waitForFinalResult: resultHandler
resultHandler(w, k, result) ==
  IF isFinal(result) /\ ~w.stops[k].resolved
  THEN LET w1 == [w EXCEPT !.stops[k].resolved = TRUE]
           w2 == offResult(w1, k)
           w3 == [w2 EXCEPT !.stops[k].ceiling = FALSE]
       IN resolveWait(w3, k, "final", result)
  ELSE w

\* --- waitForFinalResult: statusHandler (arms a grace timer on 'done')
statusHandler(w, k, status) ==
  IF status = "done" /\ ~w.stops[k].resolved
  THEN [w EXCEPT !.stops[k].grace = @ + 1]
  ELSE w

\* the grace timer's callback without its test of `resolved`
graceCallback_unguarded(w, k) ==
  LET w1 == [w EXCEPT !.stops[k].resolved = TRUE]
      w2 == offStatus(offResult(w1, k), k)
      w3 == [w2 EXCEPT !.stops[k].ceiling = FALSE]
  IN resolveWait(w3, k, "grace", Coalesce(w3.svc.finalResult, w3.svc.lastResult))

\* the grace timer's callback resolving with the final result only
graceCallback_finalOnly(w, k) ==
  IF ~w.stops[k].resolved
  THEN LET w1 == [w EXCEPT !.stops[k].resolved = TRUE]
           w2 == offStatus(offResult(w1, k), k)
           w3 == [w2 EXCEPT !.stops[k].ceiling = FALSE]
       IN resolveWait(w3, k, "grace", w3.svc.finalResult)
  ELSE w

\* --- waitForFinalResult: the grace timer's callback
graceCallback(w, k) ==
  IF ~w.stops[k].resolved
  THEN LET w1 == [w EXCEPT !.stops[k].resolved = TRUE]
           w2 == offStatus(offResult(w1, k), k)
           w3 == [w2 EXCEPT !.stops[k].ceiling = FALSE]
       IN resolveWait(w3, k, "grace", Coalesce(w3.svc.finalResult, w3.svc.lastResult))
  ELSE w

\* the 10 s timer's callback without its body
timeoutCallback_nothing(w, k) == w

\* --- waitForFinalResult: the 10 s timer's callback
timeoutCallback(w, k) ==
  IF ~w.stops[k].resolved
  THEN LET w1 == [w EXCEPT !.stops[k].resolved = TRUE]
           w2 == offResult(w1, k)
       IN resolveWait(w2, k, "ceiling", Coalesce(w2.svc.finalResult, w2.svc.lastResult))
  ELSE w

\* ============================================================ EventEmitter
RECURSIVE runResultHandlers(_, _, _)
runResultHandlers(w, hs, result) ==
  IF hs = <<>> THEN w
  ELSE runResultHandlers(resultHandler(w, Head(hs), result), Tail(hs), result)

RECURSIVE runStatusHandlers(_, _, _)
runStatusHandlers(w, hs, status) ==
  IF hs = <<>> THEN w
  ELSE runStatusHandlers(statusHandler(w, Head(hs), status), Tail(hs), status)

\* client.emit('status', status): the listeners registered when the emit
\* starts, in registration order (the service's first).
emitStatus(w, c, status) ==
  LET cl == w.clients[c]
      w1 == Log(w, Entry("emit", c, "status", status, NoResult, ""))
      w2 == IF cl.svcListeners THEN onClientStatus(w1, status) ELSE w1
  IN runStatusHandlers(w2, cl.statusHandlers, status)

emitResult(w, c, result) ==
  LET cl == w.clients[c]
      w1 == Log(w, Entry("emit", c, "result", "", result, ""))
      w2 == IF cl.svcListeners THEN onClientResult(w1, result) ELSE w1
  IN runResultHandlers(w2, cl.resultHandlers, result)

\* emit('error') with no listener throws.
emitError(w, c, err) ==
  LET cl == w.clients[c]
      w1 == Log(w, Entry("emit", c, "error", "", NoResult, err))
  IN IF cl.svcListeners THEN onClientError(w1, err)
     ELSE Log(w1, Entry("throw", c, "error", "", NoResult, err))

\* The last emit threw: the statements after it in the caller do not run.
Threw(w) == w.trace # <<>> /\ w.trace[Len(w.trace)].kind = "throw"

\* ========================================================= VolcengineClient
\* generateUUID draws 122 random bits.  A draw is taken to differ from every
\* identifier still held anywhere; it is named by the least unused number.
UsedIds(w) ==
  UNION {{w.clients[c].connectId, w.clients[c].taskId} : c \in ClientIds}
  \cup UNION {{w.sockets[s].connectId, w.sockets[s].taskId} : s \in SocketIds}

generateUUID(used) == CHOOSE n \in 1..(Cardinality(used) + 1) : n \notin used

isConnected(w, c) ==
  /\ w.clients[c].connectionState = "connected"
  /\ w.clients[c].ws # 0
  /\ w.sockets[w.clients[c].ws].readyState = OPEN

updateState(w, c, state) == [w EXCEPT !.clients[c].connectionState = state]

\* reset() that forgets to restart the sequence counter
reset_keepsIndex(w, c) ==
  [w EXCEPT !.clients[c].sessionStarted = FALSE,
            !.clients[c].taskId = 0,
            !.clients[c].connectId = 0]

reset(w, c) ==
  [w EXCEPT !.clients[c].audioIndex = 0,
            !.clients[c].sessionStarted = FALSE,
            !.clients[c].taskId = 0,
            !.clients[c].connectId = 0]

\* An outgoing frame.  message_id (a fresh UUID per frame) is left out.
buildMessage(w, c, name, index, is_end, audio) ==
  [name |-> name, task_id |-> w.clients[c].taskId, namespace |-> NAMESPACE,
   index |-> index, is_end |-> is_end, audio |-> audio]

sendMessage(w, c, message) ==
  LET s == w.clients[c].ws
  IN IF s = 0 \/ w.sockets[s].readyState # OPEN THEN w
     ELSE Log([w EXCEPT !.sockets[s].frames = Append(@, message)],
              Entry("send", s, message.name, "", NoResult, ""))

\* sendStartTranscription marking the session started without writing the frame
sendStartTranscription_noFrame(w, c) ==
  emitStatus([w EXCEPT !.clients[c].sessionStarted = TRUE], c, "listening")

sendStartTranscription(w, c) ==
  LET w1 == sendMessage(w, c, buildMessage(w, c, MESSAGE_NAMES.START, -1, FALSE, 0))
      w2 == [w1 EXCEPT !.clients[c].sessionStarted = TRUE,
                       !.clients[c].wasActive = TRUE]
  IN emitStatus(w2, c, "listening")

sendStopTranscription(w, c) ==
  sendMessage(w, c, buildMessage(w, c, MESSAGE_NAMES.STOP, -1, FALSE, 0))

\* arrayBufferToBase64 is injective; the encoded chunk is tagged by the chunk.
arrayBufferToBase64(chunk) == chunk

sendAudio(w, c, chunk) ==
  IF ~isConnected(w, c) \/ ~w.clients[c].sessionStarted THEN w
  ELSE LET message == buildMessage(w, c, MESSAGE_NAMES.AUDIO_DATA,
                                   w.clients[c].audioIndex, FALSE,
                                   arrayBufferToBase64(chunk))
           w1 == [w EXCEPT !.clients[c].audioIndex = @ + 1]
       IN sendMessage(w1, c, message)

\* finishAudio without its test of the client being active
finishAudio_unguarded(w, c) ==
  LET w1 == emitStatus(w, c, "processing")
      message == buildMessage(w1, c, MESSAGE_NAMES.AUDIO_DATA,
                              w1.clients[c].audioIndex, TRUE, 0)
      w2 == [w1 EXCEPT !.clients[c].audioIndex = @ + 1]
  IN sendMessage(w2, c, message)

finishAudio(w, c) ==
  IF ~isConnected(w, c) \/ ~w.clients[c].sessionStarted THEN w
  ELSE LET w1 == emitStatus(w, c, "processing")
           message == buildMessage(w1, c, MESSAGE_NAMES.AUDIO_DATA,
                                   w1.clients[c].audioIndex, TRUE, 0)
           w2 == [w1 EXCEPT !.clients[c].audioIndex = @ + 1]
       IN sendMessage(w2, c, message)

\* cleanup: detach and close the socket, forget it
cleanup(w, c) ==
  LET s == w.clients[c].ws
      w1 == IF s = 0 THEN w
            ELSE [w EXCEPT !.sockets[s].attached = FALSE,
                           !.sockets[s].readyState =
                              IF @ \in {OPEN, CONNECTING} THEN CLOSING ELSE @,
                           !.clients[c].ws = 0]
  IN [w1 EXCEPT !.clients[c].sessionStarted = FALSE]

cancelReconnect(w, c) ==
  LET cl == w.clients[c]
      w1 == IF cl.reconnectTimeoutId # 0
            THEN [w EXCEPT !.clients[c].rtimers = SelectSeq(@, LAMBDA t : ~t.cur),
                           !.clients[c].reconnectTimeoutId = 0]
            ELSE w
  IN [w1 EXCEPT !.clients[c].reconnectAttempts = 0]

\* a backoff that grows by the base delay per attempt
reconnectDelay_linear(attempts) ==
  Min(BASE_DELAY_MS * (attempts + 1), MAX_DELAY_MS)

reconnectDelay(attempts) ==
  Min(BASE_DELAY_MS * Pow2(attempts), MAX_DELAY_MS)

scheduleReconnect(w, c) ==
  IF w.clients[c].reconnectAttempts >= MAX_ATTEMPTS
  THEN LET w1 == updateState(w, c, "error")
           w2 == emitStatus(w1, c, "error")
       IN emitError(w2, c, ERR_MAX)
  ELSE LET delay == reconnectDelay(w.clients[c].reconnectAttempts)
           w1 == updateState(w, c, "reconnecting")
           w2 == [w1 EXCEPT
                    !.clients[c].reconnectAttempts = @ + 1,
                    !.clients[c].reconnectTimeoutId = 1,
                    !.clients[c].rtimers =
                       Append([i \in DOMAIN @ |-> [@[i] EXCEPT !.cur = FALSE]],
                              [delay |-> delay, cur |-> TRUE])]
       IN Log(w2, Entry("timer", c, "reconnect", "", NoResult, ""))

handleDisconnection(w, c) ==
  LET w1 == cleanup(w, c)
  IN IF w1.clients[c].connectionState \notin {"disconnected", "error"}
     THEN LET w2 == updateState(w1, c, "disconnected")
              w3 == emitStatus(w2, c, "idle")
          IN scheduleReconnect(w3, c)
     ELSE w1

\* --- the promise of one connect() call
continuation(w, waiter, ok, err) ==
  CASE waiter.kind = "start" -> Enqueue(w, Task("connectDone", waiter.id, ok, err))
    [] waiter.kind = "reconnect" -> Enqueue(w, Task("reconnectDone", waiter.id, ok, err))
    [] OTHER -> w

\* resolve() / reject(err) of the connect() call that created socket s
settle(w, s, ok, err) ==
  IF w.sockets[s].settled # "no" THEN w
  ELSE continuation([w EXCEPT !.sockets[s].settled = IF ok THEN "resolved" ELSE "rejected"],
                    w.sockets[s].waiter, ok, err)

FreeSocketSlots(w) == {s \in SocketIds : ~w.sockets[s].used}
LowestFree(S) == CHOOSE x \in S : \A y \in S : x <= y

\* new WebSocket(ENDPOINT, { headers }) throws on a header value that is not
\* a legal HTTP header value.
constructorThrows(config) == config.accessToken = "bad" \/ config.appId = "bad"

\* connect() that keeps the identity of the previous connection when there is one
connect_keepsIdentity(w, c, waiter) ==
  IF isConnected(w, c) THEN continuation(w, waiter, TRUE, "")
  ELSE
    LET old == w.clients[c]
        w1 == reset(w, c)
        w2 == updateState(w1, c, "connecting")
        w3 == emitStatus(w2, c, "connecting")
        connectId == IF old.connectId # 0 THEN old.connectId
                     ELSE generateUUID(UsedIds(w))
        taskId == IF old.taskId # 0 THEN old.taskId
                  ELSE generateUUID(UsedIds(w) \cup {connectId})
        w4 == [w3 EXCEPT !.clients[c].connectId = connectId,
                         !.clients[c].taskId = taskId]
    IN IF constructorThrows(w4.clients[c].config)
       THEN LET w5 == updateState(w4, c, "error")
                w6 == emitStatus(w5, c, "error")
                w7 == emitError(w6, c, ERR_CTOR)
            IN continuation(w7, waiter, FALSE, ERR_CTOR)
       ELSE LET s == LowestFree(FreeSocketSlots(w4))
            IN [w4 EXCEPT !.clients[c].ws = s,
                          !.sockets[s] =
                             [used |-> TRUE, client |-> c, readyState |-> CONNECTING,
                              attached |-> TRUE, timeout |-> TRUE, settled |-> "no",
                              waiter |-> waiter,
                              connectId |-> w4.clients[c].connectId,
                              taskId |-> w4.clients[c].taskId,
                              frames |-> <<>>]]

\* --- connect(); waiter is the code awaiting the returned promise
connect(w, c, waiter) ==
  IF isConnected(w, c) THEN continuation(w, waiter, TRUE, "")
  ELSE
    LET w1 == reset(w, c)
        w2 == updateState(w1, c, "connecting")
        w3 == emitStatus(w2, c, "connecting")
        connectId == generateUUID(UsedIds(w))
        taskId == generateUUID(UsedIds(w) \cup {connectId})
        w4 == [w3 EXCEPT !.clients[c].connectId = connectId,
                         !.clients[c].taskId = taskId]
    IN IF constructorThrows(w4.clients[c].config)
       THEN LET w5 == updateState(w4, c, "error")
                w6 == emitStatus(w5, c, "error")
                w7 == emitError(w6, c, ERR_CTOR)
            IN continuation(w7, waiter, FALSE, ERR_CTOR)
       ELSE LET s == LowestFree(FreeSocketSlots(w4))
            IN [w4 EXCEPT !.clients[c].ws = s,
                          !.sockets[s] =
                             [used |-> TRUE, client |-> c, readyState |-> CONNECTING,
                              attached |-> TRUE, timeout |-> TRUE, settled |-> "no",
                              waiter |-> waiter,
                              connectId |-> w4.clients[c].connectId,
                              taskId |-> w4.clients[c].taskId,
                              frames |-> <<>>]]

\* --- disconnect()
disconnect(w, c) ==
  LET w1 == cancelReconnect(w, c)
      s == w1.clients[c].ws
      w2 == IF s # 0 /\ w1.sockets[s].readyState = OPEN /\ w1.clients[c].sessionStarted
            THEN sendStopTranscription(w1, c) ELSE w1
      w3 == cleanup(w2, c)
      w4 == updateState(w3, c, "disconnected")
  IN emitStatus(w4, c, "idle")

\* --- connect(): the callbacks registered for socket s
clearConnectionTimeout(w, s) == [w EXCEPT !.sockets[s].timeout = FALSE]

connectionTimeout(w, s) ==
  LET c == w.sockets[s].client
      w0 == clearConnectionTimeout(w, s)
  IN IF w0.clients[c].connectionState = "connecting"
     THEN LET w1 == cleanup(w0, c)
              w2 == updateState(w1, c, "error")
              w3 == emitStatus(w2, c, "error")
              w4 == emitError(w3, c, ERR_TIMEOUT)
          IN IF Threw(w4) THEN w4 ELSE settle(w4, s, FALSE, ERR_TIMEOUT)
     ELSE w0

onOpen(w, s) ==
  LET c == w.sockets[s].client
      w1 == updateState(w, c, "connected")
      w2 == sendStartTranscription(w1, c)
      w3 == clearConnectionTimeout(w2, s)
  IN settle(w3, s, TRUE, "")

onError(w, s) ==
  LET c == w.sockets[s].client
      w1 == clearConnectionTimeout(w, s)
      w2 == emitError(w1, c, ERR_WS)
  IN IF Threw(w2) THEN w2
     ELSE IF w2.clients[c].connectionState = "connecting"
     THEN settle(w2, s, FALSE, ERR_WS)
     ELSE handleDisconnection(w2, c)

onClose(w, s) ==
  LET c == w.sockets[s].client
      w1 == clearConnectionTimeout(w, s)
  IN handleDisconnection(w1, c)

\* A connection attempt that fails: the socket emits 'error' and then 'close'
\* in the same tick, before any promise continuation runs.
emitErrorAndClose(w, s) ==
  LET w1 == onError([w EXCEPT !.sockets[s].readyState = CLOSING], s)
      w2 == [w1 EXCEPT !.sockets[s].readyState = CLOSED]
  IN IF Threw(w1) THEN w1
     ELSE IF w2.sockets[s].attached THEN onClose(w2, s) ELSE w2

\* ----------------------------------------------------------- received frames
\* A received frame, as far as the schemas look at it.
\*   json      the text parses as JSON           obj   the JSON value is an object
\*   header    "absent" | "object" | "other"     fields  header fields present as strings
\*   statusKind "absent" | "number" | "other"    status  header.status when a number
\*   hasMsg    header.status_message present     payloadKind "absent" | "object" | "other"
\*   result    payload.result: kind "absent" | "object" | "invalid"
RequiredHeader == {"message_id", "task_id", "namespace", "name"}

ResultPayload(kind, hasText, text, hasSentences, sentences) ==
  [kind |-> kind, hasText |-> hasText, text |-> text,
   hasSentences |-> hasSentences, sentences |-> sentences]
RAbsent == ResultPayload("absent", FALSE, <<>>, FALSE, <<>>)
RInvalid == ResultPayload("invalid", FALSE, <<>>, FALSE, <<>>)
REmpty == ResultPayload("object", FALSE, <<>>, FALSE, <<>>)
RText(t) == ResultPayload("object", TRUE, t, FALSE, <<>>)
RSentences(ss) == ResultPayload("object", FALSE, <<>>, TRUE, ss)
RBoth(t, ss) == ResultPayload("object", TRUE, t, TRUE, ss)

InFrame(json, obj, header, fields, statusKind, status, hasMsg, payloadKind, name, result) ==
  [json |-> json, obj |-> obj, header |-> header, fields |-> fields,
   statusKind |-> statusKind, status |-> status, hasMsg |-> hasMsg,
   payloadKind |-> payloadKind, name |-> name, result |-> result]

WellFormed(name, statusKind, status, hasMsg, result) ==
  InFrame(TRUE, TRUE, "object", RequiredHeader, statusKind, status, hasMsg,
          "object", name, result)

\* volcengineMessageSchema.safeParse(raw).success
volcengineMessageSchema(f) ==
  /\ f.obj
  /\ f.header = "object"
  /\ RequiredHeader \subseteq f.fields
  /\ f.statusKind \in {"absent", "number"}
  /\ f.payloadKind = "object"

\* transcriptionResultPayloadSchema.safeParse(payload).success
transcriptionResultPayloadSchema(f) == f.result.kind # "invalid"

RECURSIVE Join(_)
Join(ss) == IF ss = <<>> THEN <<>> ELSE Head(ss) \o Join(Tail(ss))

\* The text handleTranscriptionResult extracts from a valid result object
extractText(result) ==
  LET text == IF result.hasText THEN result.text ELSE <<>>
  IN IF text = <<>> /\ result.hasSentences THEN Join(result.sentences) ELSE text

handleTranscriptionResult(w, c, f, final) ==
  IF ~transcriptionResultPayloadSchema(f) THEN w
  ELSE IF f.result.kind = "absent" THEN w
  ELSE LET text == extractText(f.result)
       IN IF text # <<>> THEN emitResult(w, c, ASRResult(final, text)) ELSE w

\* processMessage without its test of the header status
processMessage_noStatusCheck(w, c, f) ==
  CASE f.name = MESSAGE_NAMES.TRANSCRIPTION_RESULT_CHANGED ->
         handleTranscriptionResult(w, c, f, FALSE)
    [] f.name = MESSAGE_NAMES.TRANSCRIPTION_COMPLETED ->
         emitStatus(handleTranscriptionResult(w, c, f, TRUE), c, "done")
    [] f.name = MESSAGE_NAMES.TASK_FAILED ->
         emitStatus(emitError(w, c, IF f.hasMsg THEN ERR_SERVER ELSE ERR_TASK),
                    c, "error")
    [] OTHER -> w

\* processMessage reporting a failed task by the error event only
processMessage_errorOnly(w, c, f) ==
  IF f.statusKind = "number" /\ f.status # 0 /\ f.status # SUCCESS_STATUS
  THEN emitError(w, c, IF f.hasMsg THEN ERR_SERVER ELSE ERR_STATUS)
  ELSE CASE f.name = MESSAGE_NAMES.TRANSCRIPTION_RESULT_CHANGED ->
              handleTranscriptionResult(w, c, f, FALSE)
         [] f.name = MESSAGE_NAMES.TRANSCRIPTION_COMPLETED ->
              emitStatus(handleTranscriptionResult(w, c, f, TRUE), c, "done")
         [] f.name = MESSAGE_NAMES.TASK_FAILED ->
              emitError(w, c, IF f.hasMsg THEN ERR_SERVER ELSE ERR_TASK)
         [] OTHER -> w

processMessage(w, c, f) ==
  IF f.statusKind = "number" /\ f.status # 0 /\ f.status # SUCCESS_STATUS
  THEN emitError(w, c, IF f.hasMsg THEN ERR_SERVER ELSE ERR_STATUS)
  ELSE CASE f.name = MESSAGE_NAMES.TRANSCRIPTION_RESULT_CHANGED ->
              handleTranscriptionResult(w, c, f, FALSE)
         [] f.name = MESSAGE_NAMES.TRANSCRIPTION_COMPLETED ->
              emitStatus(handleTranscriptionResult(w, c, f, TRUE), c, "done")
         [] f.name = MESSAGE_NAMES.TASK_FAILED ->
              emitStatus(emitError(w, c, IF f.hasMsg THEN ERR_SERVER ELSE ERR_TASK),
                         c, "error")
         [] OTHER -> w

\* handleMessage without the schema check
handleMessage_unchecked(w, c, f) ==
  IF ~f.json THEN w
  ELSE processMessage(w, c, f)

\* handleMessage: JSON.parse throws or the schema rejects -> the frame is dropped
handleMessage(w, c, f) ==
  IF ~f.json THEN w
  ELSE IF ~volcengineMessageSchema(f) THEN w
  ELSE processMessage(w, c, f)

\* ================================================================ ASRService
\* --- config.ts: loadASRConfig reads process.env
Missing(v) == v \in {"unset", ""}

\* loadASRConfig checking the access token only
loadASRConfigThrows_tokenOnly == Missing(env.accessToken)

loadASRConfigThrows == Missing(env.appId) \/ Missing(env.accessToken)

loadASRConfig ==
  [appId |-> env.appId, accessToken |-> env.accessToken,
   resourceId |-> IF env.resourceId = "unset" THEN DEFAULT_RESOURCE_ID
                  ELSE env.resourceId]

\* config?.x ?? envConfig.x
Override(o, e) == IF o = "none" THEN e ELSE o

ASRService_reset(w) ==
  [w EXCEPT !.svc.finalResult = NoResult,
            !.svc.lastResult = NoResult,
            !.svc.status = "idle"]

setupClientListeners(w) ==
  IF w.svc.client = 0 THEN w
  ELSE [w EXCEPT !.clients[w.svc.client].svcListeners = TRUE]

removeAllListeners(w, c) ==
  [w EXCEPT !.clients[c].svcListeners = FALSE,
            !.clients[c].resultHandlers = <<>>,
            !.clients[c].statusHandlers = <<>>]

\* cleanup() that disconnects the client before it removes the listeners
ASRService_cleanup_disconnectFirst(w) ==
  LET c == w.svc.client
      w1 == IF c # 0
            THEN [removeAllListeners(disconnect(w, c), c) EXCEPT !.svc.client = 0]
            ELSE w
  IN updateStatus(w1, "idle")

ASRService_cleanup(w) ==
  LET c == w.svc.client
      w1 == IF c # 0
            THEN [disconnect(removeAllListeners(w, c), c) EXCEPT !.svc.client = 0]
            ELSE w
  IN updateStatus(w1, "idle")

\* stop() returns: its promise resolves, a start() awaiting it continues
returnStop(w, k, branch, value) ==
  LET w1 == [w EXCEPT !.stops[k].state = "returned",
                      !.stops[k].branch = branch,
                      !.stops[k].value = value]
  IN IF w.stops[k].parent # 0
     THEN Enqueue(w1, Task("startCont", w.stops[k].parent, TRUE, ""))
     ELSE w1

waitForFinalResult(w, k) ==
  LET w0 == [w EXCEPT !.stops[k].state = "waiting"]
  IN IF w0.svc.finalResult # NoResult
     THEN resolveWait(w0, k, "immediate", w0.svc.finalResult)
     ELSE LET c == w0.svc.client
              w1 == [w0 EXCEPT !.stops[k].ceiling = TRUE]
          IN IF c = 0 THEN w1
             ELSE [w1 EXCEPT !.clients[c].resultHandlers = Append(@, k),
                             !.clients[c].statusHandlers = Append(@, k)]

\* stop(), up to its first await; k is the record of this call
stop(w, k, parent) ==
  LET w0 == [w EXCEPT !.stops[k] =
                [FreeStop EXCEPT !.used = TRUE, !.state = "running", !.parent = parent]]
      c == w0.svc.client
  IN IF c = 0 \/ w0.svc.status = "idle"
     THEN returnStop(w0, k, "noSession", NoResult)
     ELSE IF isConnected(w0, c)
          THEN waitForFinalResult(finishAudio(w0, c), k)
          ELSE LET w1 == ASRService_cleanup(w0)
               IN returnStop(w1, k, "notConnected", w1.svc.finalResult)

\* stop() after `await this.waitForFinalResult()`
stopCont(w, k) ==
  LET w1 == ASRService_cleanup(w)
  IN returnStop(w1, k, w1.stops[k].branch, w1.stops[k].value)

FreeClientSlots(w) == {c \in ClientIds : ~w.clients[c].used}

\* start() from `this.reset()` on; i is the record of this call
startBody(w, i) ==
  LET w1 == ASRService_reset(w)
      config == w1.starts[i].config
  IN IF loadASRConfigThrows
     THEN LET w2 == updateStatus(w1, "error")
              w3 == Log(w2, Entry("ui", 0, "error", "", NoResult, ERR_CONFIG))
          IN [w3 EXCEPT !.starts[i].state = "rejected", !.starts[i].err = ERR_CONFIG]
     ELSE LET envConfig == loadASRConfig
              clientConfig ==
                [appId |-> Override(config.appId, envConfig.appId),
                 accessToken |-> Override(config.accessToken, envConfig.accessToken),
                 resourceId |-> Override(config.resourceId, envConfig.resourceId)]
              c == LowestFree(FreeClientSlots(w1))
              w2 == [w1 EXCEPT !.clients[c] =
                        [FreeClient EXCEPT !.used = TRUE, !.config = clientConfig],
                               !.svc.client = c]
              w3 == setupClientListeners(w2)
              w4 == updateStatus(w3, "connecting")
              w5 == [w4 EXCEPT !.starts[i].state = "awaitConnect"]
          IN connect(w5, c, [kind |-> "start", id |-> i])

\* start(config), up to its first await; k is the record of the implicit stop()
start(w, i, config, k) ==
  LET w0 == [w EXCEPT !.starts[i] =
                [used |-> TRUE, state |-> "running", config |-> config, err |-> ""]]
  IN IF w0.svc.status # "idle"
     THEN stop([w0 EXCEPT !.starts[i].state = "awaitStop"], k, i)
     ELSE startBody(w0, i)

\* the catch block of start() without its cleanup()
connectDone_noCleanup(w, i, ok, err) ==
  IF ok THEN [w EXCEPT !.starts[i].state = "resolved"]
  ELSE LET w1 == updateStatus(w, "error")
           w2 == Log(w1, Entry("ui", 0, "error", "", NoResult, err))
       IN [w2 EXCEPT !.starts[i].state = "rejected", !.starts[i].err = err]

\* start() after `await this.client.connect()`
connectDone(w, i, ok, err) ==
  IF ok THEN [w EXCEPT !.starts[i].state = "resolved"]
  ELSE LET w1 == updateStatus(w, "error")
           w2 == Log(w1, Entry("ui", 0, "error", "", NoResult, err))
           w3 == ASRService_cleanup(w2)
       IN [w3 EXCEPT !.starts[i].state = "rejected", !.starts[i].err = err]

\* the reconnect timer's callback leaving the counter as it is
reconnectDone_keepsCount(w, c, ok) == w

\* the reconnect timer's callback after `await this.connect()`
reconnectDone(w, c, ok) ==
  IF ok THEN [w EXCEPT !.clients[c].reconnectAttempts = 0] ELSE w

\* processAudioChunk without its status guard
processAudioChunk_anyStatus(w, chunk) ==
  LET c == w.svc.client
  IN IF c = 0 \/ ~isConnected(w, c) THEN w
     ELSE sendAudio(w, c, chunk)

processAudioChunk(w, chunk) ==
  LET c == w.svc.client
  IN IF c = 0 \/ ~isConnected(w, c) THEN w
     ELSE IF w.svc.status # "listening" THEN w
     ELSE sendAudio(w, c, chunk)

\* ---------------------------------------------------------------- microtasks
RECURSIVE RunQueue(_)
RunQueue(w) ==
  IF w.queue = <<>> THEN w
  ELSE LET t == Head(w.queue)
           w1 == [w EXCEPT !.queue = Tail(@)]
       IN RunQueue(CASE t.k = "stopCont" -> stopCont(w1, t.id)
                     [] t.k = "startCont" -> startBody(w1, t.id)
                     [] t.k = "connectDone" -> connectDone(w1, t.id, t.ok, t.err)
                     [] t.k = "reconnectDone" -> reconnectDone(w1, t.id, t.ok)
                     [] OTHER -> w1)

\* ------------------------------------------------------- unreachable objects
\* Records nothing can reach any more are returned to their pools at the start
\* of the next step: a client the service dropped that has no timer and no
\* socket able to call it, a socket without handlers or timer, a settled call.
LiveSocket(w, s) ==
  /\ w.sockets[s].used
  /\ w.sockets[s].attached
  /\ w.sockets[s].readyState # CLOSED

DeadClients(w) ==
  {c \in ClientIds :
     /\ w.clients[c].used
     /\ w.svc.client # c
     /\ w.clients[c].rtimers = <<>>
     /\ \A s \in SocketIds :
          w.sockets[s].used /\ w.sockets[s].client = c =>
            /\ ~LiveSocket(w, s)
            /\ ~(w.sockets[s].timeout /\ w.clients[c].connectionState = "connecting")}

DeadSockets(w) ==
  LET deadC == DeadClients(w) IN
  {s \in SocketIds :
     /\ w.sockets[s].used
     /\ \/ w.sockets[s].client \in deadC
        \/ /\ ~LiveSocket(w, s)
           /\ ~w.sockets[s].timeout
           /\ \A c \in ClientIds : w.clients[c].ws # s}

\* start() calls awaiting a connect() promise that nothing can settle any more
HungStarts(w) ==
  LET deadS == DeadSockets(w) IN
  {i \in StartIds :
     /\ w.starts[i].state = "awaitConnect"
     /\ \E s \in deadS :
          /\ w.sockets[s].waiter = [kind |-> "start", id |-> i]
          /\ w.sockets[s].settled = "no"}

GC(w) ==
  LET deadC == DeadClients(w)
      deadS == DeadSockets(w)
      hung == HungStarts(w)
      doneStops == {k \in StopIds : w.stops[k].state = "returned"}
      keep(hs) == SelectSeq(hs, LAMBDA k : k \notin doneStops)
  IN [w EXCEPT
        !.clients = [c \in ClientIds |->
                       IF c \in deadC THEN FreeClient
                       ELSE [w.clients[c] EXCEPT !.resultHandlers = keep(@),
                                                 !.statusHandlers = keep(@)]],
        !.sockets = [s \in SocketIds |->
                       IF s \in deadS THEN FreeSocket ELSE w.sockets[s]],
        !.stops = [k \in StopIds |->
                     IF k \in doneStops THEN FreeStop ELSE w.stops[k]],
        !.starts = [i \in StartIds |->
                      IF w.starts[i].state \in {"resolved", "rejected", "hung"}
                      THEN FreeStart
                      ELSE IF i \in hung THEN [w.starts[i] EXCEPT !.state = "hung"]
                      ELSE w.starts[i]]]

W0 == GC(World)

FreeStopSlots(w) == {k \in StopIds : ~w.stops[k].used}
FreeStartSlots(w) == {i \in StartIds : ~w.starts[i].used}

\* A start() awaiting its implicit stop() will construct a client and open a
\* socket when it continues: one of each is kept for it.
Reserved(w) == Cardinality({i \in StartIds : w.starts[i].state = "awaitStop"})
ClientAvailable(w) == Cardinality(FreeClientSlots(w)) > Reserved(w)
SocketAvailable(w) == Cardinality(FreeSocketSlots(w)) > Reserved(w)

\* ------------------------------------------------------------------- inputs
Envs ==
  [appId : {"unset", "envApp"}, accessToken : {"unset", "envTok"},
   resourceId : {"unset"}]

Configs ==
  {[appId |-> "none", accessToken |-> "none", resourceId |-> "none"],
   [appId |-> "cfgApp", accessToken |-> "cfgTok", resourceId |-> "none"],
   [appId |-> "none", accessToken |-> "bad", resourceId |-> "none"]}

Chunks == {1}

T1 == <<1>>
T2 == <<2>>
T12 == <<1, 2>>

Changed == MESSAGE_NAMES.TRANSCRIPTION_RESULT_CHANGED
Completed == MESSAGE_NAMES.TRANSCRIPTION_COMPLETED
Failed == MESSAGE_NAMES.TASK_FAILED

\* Frames the schema accepts
GoodFrames ==
  {WellFormed(Changed, "absent", 0, FALSE, r) :
     r \in {RText(T1), RSentences(<<T1, T2>>), RBoth(<<>>, <<T1>>), RText(<<>>),
            REmpty, RAbsent, RInvalid}}
  \cup {WellFormed(Completed, "absent", 0, FALSE, r) :
     r \in {RText(T12), RSentences(<<T2>>), RBoth(T12, <<T2>>), RSentences(<<>>),
            REmpty, RAbsent, RInvalid}}
  \cup {WellFormed(Completed, "number", st, FALSE, RText(T12)) :
     st \in {0, SUCCESS_STATUS}}
  \cup {WellFormed(n, "number", ERROR_STATUS, m, RText(T12)) :
     n \in {Changed, Completed, Failed, "Unknown"}, m \in BOOLEAN}
  \cup {WellFormed(Failed, "absent", 0, m, RAbsent) : m \in BOOLEAN}
  \cup {WellFormed(Failed, "number", 0, FALSE, RAbsent),
        WellFormed("Unknown", "absent", 0, FALSE, RText(T12))}

\* Frames handleMessage drops; each would emit a final result if interpreted
Effective == WellFormed(Completed, "absent", 0, FALSE, RText(T12))

MalformedFrames ==
  {[Effective EXCEPT !.json = FALSE],
   [Effective EXCEPT !.obj = FALSE],
   [Effective EXCEPT !.header = "absent"],
   [Effective EXCEPT !.header = "other"],
   [Effective EXCEPT !.statusKind = "other"],
   [Effective EXCEPT !.payloadKind = "absent"],
   [Effective EXCEPT !.payloadKind = "other"]}
  \cup {[Effective EXCEPT !.fields = RequiredHeader \ {h}] : h \in RequiredHeader}

InFrames == GoodFrames \cup MalformedFrames

\* A frame whose interpretation reaches emitStatus('done')
EmitsDone(f) ==
  /\ f.json /\ volcengineMessageSchema(f)
  /\ ~(f.statusKind = "number" /\ f.status # 0 /\ f.status # SUCCESS_STATUS)
  /\ f.name = Completed

\* ============================================================= AudioRecorder
\* renderer/src/modules/asr/lib/audio-recorder.ts.  One recorder object; the
\* operations are functions from recorder to recorder.
\*   isRecording, error   this.state
\*   notified             the state last passed to onStateChange
\*   onStateChange        the callback is set (destroy() sets it to null)
\*   resources            this.resources: 0 for null, otherwise the pipeline held
\*   awaiting             start() calls waiting for getUserMedia
\*   pipes                the capture pipelines: the media stream ("none",
\*                        "live"), the AudioContext ("none", "open") and whether
\*                        the processor node is connected (onaudioprocess fires)
\*   supported            window.AudioContext or webkitAudioContext exists
\*   stopped              stop() has returned and start() was not called since
\*   delivered            chunk callbacks since stop() last returned (capped)

AUDIO_ERRORS ==
  [PERMISSION_DENIED |-> "Microphone permission denied",
   DEVICE_NOT_AVAILABLE |-> "No microphone device available",
   AUDIO_CONTEXT_NOT_SUPPORTED |-> "AudioContext is not supported in this browser",
   ALREADY_RECORDING |-> "Recording is already in progress"]

\* A recorder as constructed; a free pipeline slot has no stream.
NewRecorder(supported) ==
  [isRecording |-> FALSE, error |-> "null",
   notified |-> [isRecording |-> FALSE, error |-> "null"],
   onStateChange |-> TRUE, resources |-> 0, awaiting |-> 0,
   pipes |-> [p \in 1..MaxPipes |->
                [stream |-> "none", context |-> "none", connected |-> FALSE]],
   supported |-> supported, stopped |-> FALSE, delivered |-> 0]

\* setState(partial): merge into this.state, then notify
setState(r, partial) ==
  LET r1 == [k \in DOMAIN r |-> IF k \in DOMAIN partial THEN partial[k] ELSE r[k]]
  IN IF r1.onStateChange
     THEN [r1 EXCEPT !.notified = [isRecording |-> r1.isRecording, error |-> r1.error]]
     ELSE r1

\* cleanupResources: nodes disconnected, tracks stopped, context closed; the
\* released pipeline is garbage and its slot is free again.
cleanupResources(r) ==
  IF r.resources = 0 THEN r
  ELSE [r EXCEPT !.pipes[r.resources] =
                   [stream |-> "none", context |-> "none", connected |-> FALSE],
                 !.resources = 0]

\* the catch block of start()
recorderCatch(r, thrown) ==
  LET errorMessage ==
        CASE thrown \in {"NotAllowedError", "PermissionDeniedError"} ->
               AUDIO_ERRORS.PERMISSION_DENIED
          [] thrown \in {"NotFoundError", "DevicesNotFoundError"} ->
               AUDIO_ERRORS.DEVICE_NOT_AVAILABLE
          [] thrown = "DOMException" -> "Microphone error"
          [] thrown = "Error" -> "Failed to start recording"
          [] OTHER -> "An unknown error occurred while starting recording"
  IN cleanupResources(setState(r, [error |-> errorMessage]))

\* ------------------------------------------------------------------ actions
Init ==
  /\ svc = [client |-> 0, status |-> "idle", finalResult |-> NoResult,
            lastResult |-> NoResult]
  /\ clients = [c \in ClientIds |-> FreeClient]
  /\ sockets = [s \in SocketIds |-> FreeSocket]
  /\ stops = [k \in StopIds |-> FreeStop]
  /\ starts = [i \in StartIds |-> FreeStart]
  /\ env \in Envs
  /\ statusLog = <<>>
  /\ rec = NewRecorder(TRUE)
  /\ logging = FALSE
  /\ budget = [start |-> MaxStartCalls, open |-> MaxOpens, connect |-> 0]

\* ipcMain.handle(ASR.START): asrService.start(config)
Start(config) ==
  LET w == W0 IN
  /\ budget.start > 0
  /\ FreeStartSlots(w) # {} /\ FreeStopSlots(w) # {}
  /\ ClientAvailable(w) /\ SocketAvailable(w)
  /\ Commit(RunQueue(start([w EXCEPT !.statusLog = <<>>],
                           LowestFree(FreeStartSlots(w)), config,
                           LowestFree(FreeStopSlots(w)))))
  /\ Spend("start")

\* ipcMain.handle(ASR.STOP): asrService.stop()
Stop ==
  LET w == W0 IN
  /\ FreeStopSlots(w) # {}
  /\ Commit(RunQueue(stop(w, LowestFree(FreeStopSlots(w)), 0)))
  /\ UNCHANGED budget

\* ipcMain.on(ASR.SEND_AUDIO): asrService.processAudioChunk(chunk)
Chunk(chunk) ==
  LET w == W0 IN
  /\ w.svc.client # 0 => w.clients[w.svc.client].audioIndex < MaxAudio
  /\ Commit(RunQueue(processAudioChunk(w, chunk)))
  /\ UNCHANGED budget

\* the socket opens: readyState OPEN, 'open'
WsOpen(s) ==
  LET w == W0 IN
  /\ budget.open > 0
  /\ LiveSocket(w, s) /\ w.sockets[s].readyState = CONNECTING
  /\ Commit(RunQueue(onOpen([w EXCEPT !.sockets[s].readyState = OPEN], s)))
  /\ Spend("open")

\* the connection attempt fails: 'error', then 'close', in one tick
WsFail(s) ==
  LET w == W0 IN
  /\ LiveSocket(w, s) /\ w.sockets[s].readyState = CONNECTING
  /\ Commit(RunQueue(emitErrorAndClose(w, s)))
  /\ UNCHANGED budget

\* a frame arrives: 'message'
WsMessage(s, f) ==
  LET w == W0 IN
  /\ LiveSocket(w, s) /\ w.sockets[s].readyState = OPEN
  /\ EmitsDone(f) =>
       \A k \in StopIds : w.stops[k].used => w.stops[k].grace < MaxGrace
  /\ Commit(RunQueue(handleMessage(w, w.sockets[s].client, f)))
  /\ UNCHANGED budget

\* the peer starts closing: readyState CLOSING, no event yet
WsClosing(s) ==
  LET w == W0 IN
  /\ LiveSocket(w, s) /\ w.sockets[s].readyState = OPEN
  /\ Commit([w EXCEPT !.sockets[s].readyState = CLOSING])
  /\ UNCHANGED budget

\* the socket closes: readyState CLOSED, 'close'
WsClose(s) ==
  LET w == W0 IN
  /\ LiveSocket(w, s) /\ w.sockets[s].readyState \in {OPEN, CLOSING}
  /\ Commit(RunQueue(onClose([w EXCEPT !.sockets[s].readyState = CLOSED], s)))
  /\ UNCHANGED budget

\* the open socket fails: 'error'
WsError(s) ==
  LET w == W0 IN
  /\ LiveSocket(w, s) /\ w.sockets[s].readyState = OPEN
  /\ Commit(RunQueue(onError([w EXCEPT !.sockets[s].readyState = CLOSING], s)))
  /\ UNCHANGED budget

\* the 30 s connection timer of socket s fires
ConnectionTimeoutFire(s) ==
  LET w == W0 IN
  /\ w.sockets[s].used /\ w.sockets[s].timeout
  /\ Commit(RunQueue(connectionTimeout(w, s)))
  /\ UNCHANGED budget

\* the reconnect timer of client c fires: await this.connect()
ReconnectFire(c) ==
  LET w == W0 IN
  /\ w.clients[c].used /\ w.clients[c].rtimers # <<>>
  /\ SocketAvailable(w)
  /\ Commit(RunQueue(connect([w EXCEPT !.clients[c].rtimers = Tail(@)], c,
                             [kind |-> "reconnect", id |-> c])))
  /\ UNCHANGED budget

\* the 10 s timer of the wait of stop call k fires
CeilingFire(k) ==
  LET w == W0 IN
  /\ w.stops[k].used /\ w.stops[k].ceiling
  /\ Commit(RunQueue(timeoutCallback([w EXCEPT !.stops[k].ceiling = FALSE], k)))
  /\ UNCHANGED budget

\* a 500 ms grace timer of the wait of stop call k fires
GraceFire(k) ==
  LET w == W0 IN
  /\ w.stops[k].used /\ w.stops[k].grace > 0
  /\ Commit(RunQueue(graceCallback([w EXCEPT !.stops[k].grace = @ - 1], k)))
  /\ UNCHANGED budget

Next ==
  \/ \E config \in Configs : Start(config)
  \/ Stop
  \/ \E chunk \in Chunks : Chunk(chunk)
  \/ \E s \in SocketIds : WsOpen(s)
  \/ \E s \in SocketIds : WsFail(s)
  \/ \E s \in SocketIds, f \in InFrames : WsMessage(s, f)
  \/ \E s \in SocketIds : WsClosing(s)
  \/ \E s \in SocketIds : WsClose(s)
  \/ \E s \in SocketIds : WsError(s)
  \/ \E s \in SocketIds : ConnectionTimeoutFire(s)
  \/ \E c \in ClientIds : ReconnectFire(c)
  \/ \E k \in StopIds : CeilingFire(k)
  \/ \E k \in StopIds : GraceFire(k)

Spec == Init /\ [][Next]_vars

\* A timer that is armed and not cleared fires.  CeilingFire(k) is enabled
\* exactly while the 10 s timer of wait k is armed, and taking it disarms the
\* timer, so WF_vars(CeilingFire(k)) says the timer is not armed for ever.
CeilingArmed(k) == stops[k].used /\ stops[k].ceiling

SpecLive == Init /\ [][Next]_vars /\ \A k \in StopIds : []<>~CeilingArmed(k)

\* Configurations new WebSocket accepts
ExampleConfigs == {config \in Configs : config.accessToken # "bad"}

\* ------------------------------------------- the client's public API, direct
\* VolcengineClient is exported (services/index.ts); connect() and disconnect()
\* are public.  Here the owner of the coordinator's client also calls them
\* directly, at any time, next to everything the coordinator does.
InitClient ==
  /\ svc = [client |-> 0, status |-> "idle", finalResult |-> NoResult,
            lastResult |-> NoResult]
  /\ clients = [c \in ClientIds |-> FreeClient]
  /\ sockets = [s \in SocketIds |-> FreeSocket]
  /\ stops = [k \in StopIds |-> FreeStop]
  /\ starts = [i \in StartIds |-> FreeStart]
  /\ env = [appId |-> "envApp", accessToken |-> "envTok", resourceId |-> "unset"]
  /\ statusLog = <<>>
  /\ rec = NewRecorder(TRUE)
  /\ logging = FALSE
  /\ budget = [start |-> MaxStartCalls, open |-> MaxOpens, connect |-> MaxConnects]

\* client.connect(), its promise not awaited
ApiConnect(c) ==
  LET w == W0 IN
  /\ budget.connect > 0
  /\ w.svc.client = c
  /\ SocketAvailable(w)
  /\ Commit(RunQueue(connect(w, c, NoWaiter)))
  /\ Spend("connect")

\* client.disconnect()
ApiDisconnect(c) ==
  LET w == W0 IN
  /\ w.svc.client = c
  /\ Commit(RunQueue(disconnect(w, c)))
  /\ UNCHANGED budget

\* The frame of a session that runs well: a final result
ClientFrames == {WellFormed(Completed, "absent", 0, FALSE, RText(T12))}

NextClient ==
  \/ \E config \in ExampleConfigs : Start(config)
  \/ \E c \in ClientIds : ApiConnect(c)
  \/ \E c \in ClientIds : ApiDisconnect(c)
  \/ \E s \in SocketIds : WsOpen(s)
  \/ \E s \in SocketIds : WsFail(s)
  \/ \E s \in SocketIds, f \in ClientFrames : WsMessage(s, f)
  \/ \E s \in SocketIds : WsClose(s)
  \/ \E s \in SocketIds : WsError(s)
  \/ \E s \in SocketIds : ConnectionTimeoutFire(s)
  \/ \E c \in ClientIds : ReconnectFire(c)

SpecClient == InitClient /\ [][NextClient]_vars

\* ------------------------------------------------------- the example session
\* start() with valid configuration, the socket opens, two chunks are sent,
\* stop() is called, the server answers with a final transcript.  The server
\* may send interim results while the session listens.
ExampleChunks == {1, 2, 3}
InterimFrames == {f \in GoodFrames : f.name = Changed /\ f.statusKind = "absent"}
FinalFrames ==
  {f \in GoodFrames :
     /\ EmitsDone(f) /\ f.result.kind = "object" /\ extractText(f.result) # <<>>}

InitExample ==
  /\ svc = [client |-> 0, status |-> "idle", finalResult |-> NoResult,
            lastResult |-> NoResult]
  /\ clients = [c \in ClientIds |-> FreeClient]
  /\ sockets = [s \in SocketIds |-> FreeSocket]
  /\ stops = [k \in StopIds |-> FreeStop]
  /\ starts = [i \in StartIds |-> FreeStart]
  /\ env = [appId |-> "envApp", accessToken |-> "envTok", resourceId |-> "unset"]
  /\ statusLog = <<>>
  /\ rec = NewRecorder(TRUE)
  /\ logging = TRUE
  /\ budget = [start |-> 1, open |-> 1, connect |-> 0]

Listening == svc.status = "listening" /\ \A k \in StopIds : ~stops[k].used
ChunksSent == IF svc.client = 0 THEN 0 ELSE clients[svc.client].audioIndex

NextExample ==
  \/ \E config \in ExampleConfigs : Start(config)
  \/ \E s \in SocketIds : WsOpen(s)
  \/ \E chunk \in ExampleChunks : Listening /\ ChunksSent < 2 /\ Chunk(chunk)
  \/ \E s \in SocketIds, f \in InterimFrames : Listening /\ WsMessage(s, f)
  \/ Listening /\ ChunksSent = 2 /\ Stop
  \/ \E s \in SocketIds, f \in FinalFrames :
       (\E k \in StopIds : stops[k].state = "waiting") /\ WsMessage(s, f)

SpecExample == InitExample /\ [][NextExample]_vars

\* =================================================================== claims
\* Entries of a step's trace
Sent(w) == SelectSeq(w.trace, LAMBDA e : e.kind = "send")

\* The audio-data frames written to socket s, in send order
AudioFrames(s) ==
  SelectSeq(sockets[s].frames, LAMBDA m : m.name = MESSAGE_NAMES.AUDIO_DATA)

\* C1: on every physical connection the audio-data frames written so far
\* (sendAudio frames and finishAudio end frames) carry the indices 0, 1, 2, ...
\* in send order, and the client's counter is the number of them; this holds
\* for the socket of a reconnect as for the first one.
C1_AudioIndexSequence ==
  \A s \in SocketIds :
    sockets[s].used =>
      /\ \A i \in DOMAIN AudioFrames(s) : AudioFrames(s)[i].index = i - 1
      /\ clients[sockets[s].client].ws = s =>
            clients[sockets[s].client].audioIndex = Len(AudioFrames(s))

\* A reconnect's socket that carried a chunk (index 0) and an end frame (index 1)
C1_Witness ==
  \E s \in SocketIds :
    /\ sockets[s].used
    /\ sockets[s].waiter.kind = "reconnect"
    /\ Len(AudioFrames(s)) >= 2
    /\ ~AudioFrames(s)[1].is_end
    /\ AudioFrames(s)[2].is_end

\* C2: a processAudioChunk call made while the coordinator's status is not
\* 'listening' writes no frame and changes nothing, the client's sequence
\* counter included.
C2_NoFrameUnlessListening ==
  LET w == W0 IN
  w.svc.status # "listening" =>
    \A chunk \in Chunks :
      LET w1 == RunQueue(processAudioChunk(w, chunk))
      IN /\ Sent(w1) = <<>>
         /\ w1.sockets = w.sockets
         /\ w1.clients = w.clients

\* The call is made on a connected, started session whose status is 'processing'
C2_Witness ==
  LET w == W0
      c == w.svc.client
  IN /\ c # 0
     /\ isConnected(w, c) /\ w.clients[c].sessionStarted
     /\ w.svc.status = "processing"
     /\ w.clients[c].audioIndex < MaxAudio
     /\ RunQueue(processAudioChunk(w, 1)).clients[c].audioIndex = w.clients[c].audioIndex
\* A wait of stop call k that is pending
Pending(w, k) ==
  /\ w.stops[k].used /\ w.stops[k].state = "waiting" /\ ~w.stops[k].resolved

\* A frame the client interprets as a final result: TranscriptionCompleted,
\* accepted by both schemas, status absent or a success code, text not empty
CarriesFinal(f) ==
  /\ EmitsDone(f)
  /\ transcriptionResultPayloadSchema(f)
  /\ f.result.kind = "object"
  /\ extractText(f.result) # <<>>

\* C3: when a TranscriptionCompleted frame carrying a final result arrives on
\* the connection of a client on which a wait of stop() is pending, that stop()
\* returns in the same step with exactly the frame's final result, resolved by
\* the final-result branch.
C3_FinalFrameResolvesStop ==
  LET w == W0 IN
  \A s \in SocketIds, f \in InFrames, k \in StopIds :
    LET c == w.sockets[s].client IN
    /\ LiveSocket(w, s) /\ w.sockets[s].readyState = OPEN
    /\ CarriesFinal(f)
    /\ Pending(w, k)
    /\ \E i \in DOMAIN w.clients[c].resultHandlers : w.clients[c].resultHandlers[i] = k
    => LET w1 == RunQueue(handleMessage(w, c, f))
       IN /\ w1.stops[k].state = "returned"
          /\ w1.stops[k].branch = "final"
          /\ w1.stops[k].value = ASRResult(TRUE, extractText(f.result))

\* stop() has returned the frame's final result by the final-result branch and
\* the session is torn down
C3_Witness ==
  \E k \in StopIds :
    /\ stops[k].state = "returned"
    /\ stops[k].branch = "final"
    /\ stops[k].value = ASRResult(TRUE, T12)
    /\ svc.finalResult = stops[k].value
    /\ svc.status = "idle" /\ svc.client = 0

\* C4 (as stated): once 'done' has armed the grace timer of a pending wait and
\* no final result arrives, stop() is resolved by the grace timer.
C4_Original ==
  \A k \in StopIds :
    stops[k].state = "returned" /\ stops[k].grace > 0 => stops[k].branch # "ceiling"

\* C4 (amended): a pending wait whose grace timer is armed is resolved by
\* whichever of the grace timer and the 10 s timer fires first; both are armed,
\* and either resolves stop() with the stored final result if there is one and
\* the last result otherwise (null if neither).
C4_GraceOrCeiling ==
  LET w == W0 IN
  \A k \in StopIds :
    Pending(w, k) /\ w.stops[k].grace > 0 =>
      LET v == Coalesce(w.svc.finalResult, w.svc.lastResult)
          g == RunQueue(graceCallback([w EXCEPT !.stops[k].grace = @ - 1], k))
          t == RunQueue(timeoutCallback([w EXCEPT !.stops[k].ceiling = FALSE], k))
      IN /\ w.stops[k].ceiling
         /\ g.stops[k].state = "returned" /\ g.stops[k].branch = "grace"
         /\ g.stops[k].value = v
         /\ t.stops[k].state = "returned" /\ t.stops[k].branch = "ceiling"
         /\ t.stops[k].value = v

\* The grace timer has resolved stop() with the last interim result
C4_Witness ==
  \E k \in StopIds :
    /\ stops[k].state = "returned"
    /\ stops[k].branch = "grace"
    /\ stops[k].value = ASRResult(FALSE, T1)
    /\ svc.finalResult = NoResult
\* The 10 s timer of a pending wait is armed, and its callback resolves stop()
\* with finalResult ?? lastResult: null or an interim result when no final
\* result is stored.
CeilingResolves ==
  LET w == W0 IN
  \A k \in StopIds :
    Pending(w, k) =>
      LET v == Coalesce(w.svc.finalResult, w.svc.lastResult)
          t == RunQueue(timeoutCallback([w EXCEPT !.stops[k].ceiling = FALSE], k))
      IN /\ w.stops[k].ceiling
         /\ t.stops[k].state = "returned" /\ t.stops[k].branch = "ceiling"
         /\ t.stops[k].value = v
         /\ w.svc.finalResult = NoResult => ~isFinal(v)

\* C5: every stop() call returns: a call that waits for the final result is
\* resolved at the latest by its 10 s timer, whatever the server and the socket
\* do, and then returns null or the last interim result if no final result
\* came.
C5_StopResolves ==
  /\ []CeilingResolves
  /\ \A k \in StopIds : (stops[k].state = "waiting") ~> (stops[k].state = "returned")

\* The 10 s timer has resolved a stop() for which neither a result nor 'done' came
C5_Witness ==
  \E k \in StopIds :
    /\ stops[k].state = "returned"
    /\ stops[k].branch = "ceiling"
    /\ stops[k].value = NoResult
    /\ stops[k].grace = 0
\* C6 (as stated): a client whose session was active and whose reconnection
\* attempts all failed reaches the state 'error' only after five attempts were
\* made.
C6_Original ==
  \A c \in ClientIds :
    /\ clients[c].used
    /\ clients[c].wasActive
    /\ clients[c].connectionState = "error"
    => clients[c].reconnectAttempts = MAX_ATTEMPTS

\* The reconnect a due timer of client c would run
Reconnect(w, c) ==
  connect([w EXCEPT !.clients[c].rtimers = Tail(@)], c, [kind |-> "reconnect", id |-> c])

\* C7: every socket has a connectId and a taskId that no other socket has, every
\* frame written to it carries its taskId, and a reconnect that opens a socket
\* gives the client a connectId and a taskId that differ from each other and
\* from every identifier held before it, those of the previous connection
\* included.  (Two UUID draws are taken never to coincide.)
C7_FreshIdentity ==
  LET w == W0 IN
  /\ \A s \in SocketIds :
       w.sockets[s].used =>
         /\ w.sockets[s].connectId # 0 /\ w.sockets[s].taskId # 0
         /\ w.sockets[s].connectId # w.sockets[s].taskId
         /\ \A i \in DOMAIN w.sockets[s].frames :
              w.sockets[s].frames[i].task_id = w.sockets[s].taskId
         /\ \A s2 \in SocketIds \ {s} :
              w.sockets[s2].used =>
                {w.sockets[s].connectId, w.sockets[s].taskId}
                  \cap {w.sockets[s2].connectId, w.sockets[s2].taskId} = {}
  /\ \A c \in ClientIds :
       w.clients[c].used /\ w.clients[c].rtimers # <<>> /\ SocketAvailable(w) =>
         LET w1 == Reconnect(w, c)
             s == w1.clients[c].ws
         IN s # 0 /\ ~isConnected(w, c) =>
              /\ w1.clients[c].connectId # w1.clients[c].taskId
              /\ {w1.clients[c].connectId, w1.clients[c].taskId} \cap UsedIds(w) = {}
              /\ w1.sockets[s].connectId = w1.clients[c].connectId
              /\ w1.sockets[s].taskId = w1.clients[c].taskId

\* The socket of a reconnect has carried a session-start, an audio-data and a
\* session-stop frame
C7_Witness ==
  \E s \in SocketIds :
    /\ sockets[s].used
    /\ sockets[s].waiter.kind = "reconnect"
    /\ {sockets[s].frames[i].name : i \in DOMAIN sockets[s].frames}
         = {MESSAGE_NAMES.START, MESSAGE_NAMES.AUDIO_DATA, MESSAGE_NAMES.STOP}

\* C8: a malformed frame (not JSON, not an object, a header that is missing or
\* lacks message_id, task_id, namespace or name, a status that is no number, a
\* payload that is missing or no object) is dropped: handleMessage emits
\* nothing, throws nothing and leaves the client and the coordinator as they were.
C8_MalformedFrameDropped ==
  LET w == W0 IN
  \A s \in SocketIds, f \in MalformedFrames :
    LiveSocket(w, s) /\ w.sockets[s].readyState = OPEN =>
      RunQueue(handleMessage(w, w.sockets[s].client, f)) = w

\* A malformed frame arrives where its well-formed version would resolve a
\* pending wait of stop()
C8_Witness ==
  LET w == W0 IN
  \E s \in SocketIds, k \in StopIds :
    LET c == w.sockets[s].client IN
    /\ LiveSocket(w, s) /\ w.sockets[s].readyState = OPEN
    /\ Pending(w, k)
    /\ w.clients[c].resultHandlers = <<k>>
    /\ RunQueue(handleMessage(w, c, Effective)).stops[k].state = "returned"
    /\ \A f \in MalformedFrames : RunQueue(handleMessage(w, c, f)) = w

\* C10 (as stated): when the first connection attempt of a client fails by a
\* socket error followed by close, the client schedules no reconnect and its
\* state does not become 'reconnecting'.
C10_Original ==
  LET w == W0 IN
  \A s \in SocketIds :
    LET c == w.sockets[s].client IN
    /\ LiveSocket(w, s) /\ w.sockets[s].readyState = CONNECTING
    /\ w.sockets[s].waiter.kind = "start"
    /\ ~w.clients[c].wasActive
    => LET w1 == emitErrorAndClose(w, s)
       IN /\ w1.clients[c].connectionState # "reconnecting"
          /\ w1.clients[c].rtimers = <<>>
\* The example session has run to its end: its stop() has returned
ExampleDone(k) == stops[k].state = "returned"

\* The audio-data frames of the example: two chunks, then the end frame
ExampleAudio(s) ==
  /\ Len(AudioFrames(s)) = 3
  /\ \A i \in 1..3 : AudioFrames(s)[i].index = i - 1
  /\ \A i \in 1..3 : AudioFrames(s)[i].is_end = (i = 3)

\* C9 (as stated): in the example session the coordinator broadcasts exactly
\* connecting, listening, processing, done, idle.
C9_Original ==
  \A k \in StopIds :
    ExampleDone(k) =>
      statusLog = <<"connecting", "listening", "processing", "done", "idle">>

\* C9 (amended): in the example session the coordinator broadcasts connecting
\* twice (its own, and the client's relayed by the status listener), then
\* listening, processing, done, idle once each; the two chunks go out with
\* index 0 and 1, the end frame with index 2, and stop() returns the final
\* result of the server's frame by the final-result branch.
C9_ExampleRun ==
  /\ svc.status = "listening" => statusLog = <<"connecting", "connecting", "listening">>
  /\ \A k \in StopIds :
       ExampleDone(k) =>
         /\ statusLog = <<"connecting", "connecting", "listening",
                          "processing", "done", "idle">>
         /\ \E s \in SocketIds : sockets[s].used /\ ExampleAudio(s)
         /\ stops[k].branch = "final"
         /\ isFinal(stops[k].value)
         /\ stops[k].value = svc.finalResult

\* The example session has ended with the final transcript returned
C9_Witness ==
  \E k \in StopIds :
    /\ ExampleDone(k)
    /\ stops[k].value = ASRResult(TRUE, T12)
    /\ Len(statusLog) = 6
    /\ \E s \in SocketIds : sockets[s].used /\ ExampleAudio(s)
\* The sockets whose events still reach client c
Attached(w, c) == {s \in SocketIds : LiveSocket(w, s) /\ w.sockets[s].client = c}

\* C11 (as stated): after disconnect(), whatever the state and the timers of
\* the client were, a reconnect timer that fires and a socket that opens leave
\* the client in 'disconnected'.
C11_Original ==
  LET w == W0 IN
  \A c \in ClientIds :
    w.clients[c].used =>
      LET w1 == disconnect(w, c) IN
      /\ w1.clients[c].connectionState = "disconnected"
      /\ w1.clients[c].rtimers # <<>> /\ SocketAvailable(w1) =>
            Reconnect(w1, c).clients[c].connectionState = "disconnected"
      /\ \A s \in Attached(w1, c) :
            w1.sockets[s].readyState = CONNECTING =>
              onOpen([w1 EXCEPT !.sockets[s].readyState = OPEN], s)
                .clients[c].connectionState = "disconnected"

\* C12 (as stated): a client has at most one socket that is open or opening
\* and whose handlers are attached to it.
C12_Original ==
  \A c \in ClientIds :
    Cardinality({s \in Attached(World, c) :
                   sockets[s].readyState \in {CONNECTING, OPEN}}) <= 1

\* Client c is torn down: no socket reaches it, no reconnect timer is pending
\* and no listener of the coordinator is on it
TornDown(w, c) ==
  /\ w.clients[c].ws = 0
  /\ Attached(w, c) = {}
  /\ w.clients[c].rtimers = <<>>
  /\ ~w.clients[c].svcListeners

\* C13 (as stated): once stop() has returned or start() has rejected, the
\* coordinator holds no client and every client is torn down.
C13_Original ==
  (\/ \E k \in StopIds : stops[k].state = "returned"
   \/ \E i \in StartIds : starts[i].state = "rejected")
  => /\ svc.client = 0
     /\ \A c \in ClientIds : clients[c].used => TornDown(World, c)

\* C14 (as stated): when a start() call constructs a client, every other
\* client is torn down.
C14_Original ==
  LET w == W0 IN
  \A config \in Configs :
    FreeStartSlots(w) # {} /\ FreeStopSlots(w) # {} /\ ClientAvailable(w)
      /\ SocketAvailable(w) =>
      LET w1 == RunQueue(start(w, LowestFree(FreeStartSlots(w)), config,
                               LowestFree(FreeStopSlots(w))))
      IN w1.svc.client # 0 /\ w1.svc.client # w.svc.client =>
           \A c \in ClientIds \ {w1.svc.client} :
             w1.clients[c].used => TornDown(w1, c)

\* The worlds one event of a client (a frame, a socket close or error, a
\* reconnect or connection timer) leads to from w
AfterClientEvent(w) ==
  {RunQueue(handleMessage(w, w.sockets[s].client, f)) :
     s \in {x \in SocketIds : LiveSocket(w, x) /\ w.sockets[x].readyState = OPEN},
     f \in InFrames}
  \cup {RunQueue(onClose([w EXCEPT !.sockets[s].readyState = CLOSED], s)) :
     s \in {x \in SocketIds : LiveSocket(w, x) /\ w.sockets[x].readyState # CONNECTING}}
  \cup {RunQueue(onError([w EXCEPT !.sockets[s].readyState = CLOSING], s)) :
     s \in {x \in SocketIds : LiveSocket(w, x) /\ w.sockets[x].readyState = OPEN}}
  \cup {RunQueue(emitErrorAndClose(w, s)) :
     s \in {x \in SocketIds : LiveSocket(w, x) /\ w.sockets[x].readyState = CONNECTING}}
  \cup {RunQueue(connectionTimeout(w, s)) :
     s \in {x \in SocketIds : w.sockets[x].used /\ w.sockets[x].timeout}}
  \cup {RunQueue(Reconnect(w, c)) :
     c \in {x \in ClientIds : w.clients[x].used /\ w.clients[x].rtimers # <<>>
                                /\ SocketAvailable(w)}}

\* The statuses a step broadcast, in order, after the status it started from
StatusPath(w, w1) ==
  LET es == SelectSeq(w1.trace, LAMBDA e : e.kind = "ui" /\ e.ev = "status")
  IN <<w.svc.status>> \o [j \in DOMAIN es |-> es[j].status]

Edges ==
  {<<"idle", "connecting">>, <<"connecting", "listening">>,
   <<"listening", "processing">>, <<"processing", "done">>, <<"done", "idle">>}
  \cup {<<x, "error">> : x \in ASRStatus \ {"idle"}}

\* C15 (as stated): every change of the coordinator's status that an event of
\* the client causes follows an edge of the state machine, or is the 'idle' of
\* a teardown that ends the step with no client held.
C15_Original ==
  LET w == W0 IN
  \A w1 \in AfterClientEvent(w) :
    LET path == StatusPath(w, w1) IN
    \A j \in 1..(Len(path) - 1) :
      \/ path[j] = path[j + 1]
      \/ <<path[j], path[j + 1]>> \in Edges
      \/ path[j + 1] = "idle" /\ j + 1 = Len(path) /\ w1.svc.client = 0

\* C16 (as stated): the status field changes only together with a broadcast of
\* its new value; so reset(), which broadcasts nothing, does not change it when
\* start() resumes after its implicit stop().
C16_Original ==
  LET w == W0 IN
  \A config \in Configs :
    FreeStartSlots(w) # {} /\ FreeStopSlots(w) # {} =>
      LET w1 == start(w, LowestFree(FreeStartSlots(w)), config,
                      LowestFree(FreeStopSlots(w)))
      IN w1.queue # <<>> /\ Head(w1.queue).k = "startCont" =>
           ASRService_reset(w1).svc.status = w1.svc.status

\* C17 (as stated): while no start() or stop() call is in progress, an event
\* of the client leaves a coordinator status of 'error' as it is.
C17_Original ==
  LET w == W0 IN
  /\ w.svc.status = "error"
  /\ \A k \in StopIds : ~w.stops[k].used
  /\ \A i \in StartIds : ~w.starts[i].used
  => \A w1 \in AfterClientEvent(w) : w1.svc.status = "error"

\* C20 (as stated): a stop() call made while the coordinator holds a client
\* has, when it returns, returned the most recent final result of the session
\* if there is one and the most recent result otherwise; null only if the
\* session received no result.
C20_Original ==
  \A k \in StopIds :
    /\ stops[k].state = "returned"
    /\ ~(stops[k].branch = "noSession" /\ svc.client = 0)
    => stops[k].value = Coalesce(svc.finalResult, svc.lastResult)

\* What a step told the UI collaborator, in order
Shown(w) == SelectSeq(w.trace, LAMBDA e : e.kind = "ui")

\* The last n entries of a sequence
Last(seq, n) == SubSeq(seq, Len(seq) - n + 1, Len(seq))

\* start() call i has rejected with err after the coordinator broadcast
\* 'error', sent the error text to the UI and tore down: 'idle', no client held
Rejected(w1, i, err) ==
  /\ w1.starts[i].state = "rejected" /\ w1.starts[i].err = err
  /\ Len(Shown(w1)) >= 3
  /\ Last(Shown(w1), 3) =
       <<Entry("ui", 0, "status", "error", NoResult, ""),
         Entry("ui", 0, "error", "", NoResult, err),
         Entry("ui", 0, "status", "idle", NoResult, "")>>
  /\ w1.svc.client = 0 /\ w1.svc.status = "idle"

\* C18: when the connect() a start() call awaits rejects (the attempt fails
\* with error and close, its 30 s timer fires, or the socket cannot be
\* constructed), the coordinator broadcasts 'error', sends the error text to
\* the UI, tears the client down and start() rejects with the same error;
\* after the step the client has no socket, no reconnect timer and no listener
\* of the coordinator, and the coordinator holds no client.
C18_ConnectFailureTearsDown ==
  LET w == W0 IN
  /\ \A s \in SocketIds :
       LET c == w.sockets[s].client
           i == w.sockets[s].waiter.id
       IN /\ w.sockets[s].used /\ w.sockets[s].settled = "no"
          /\ w.sockets[s].waiter.kind = "start"
          /\ w.starts[i].state = "awaitConnect"
          /\ w.clients[c].connectionState = "connecting"
          => /\ LiveSocket(w, s) /\ w.sockets[s].readyState = CONNECTING =>
                  LET w1 == RunQueue(emitErrorAndClose(w, s))
                  IN Rejected(w1, i, ERR_WS) /\ TornDown(w1, c)
                       /\ w1.clients[c].connectionState = "disconnected"
             /\ w.sockets[s].timeout =>
                  LET w1 == RunQueue(connectionTimeout(w, s))
                  IN Rejected(w1, i, ERR_TIMEOUT) /\ TornDown(w1, c)
                       /\ w1.clients[c].connectionState = "disconnected"
  /\ \A config \in Configs :
       /\ constructorThrows(config) /\ w.svc.status = "idle"
       /\ ~(Missing(env.appId) \/ Missing(env.accessToken))
       /\ FreeStartSlots(w) # {} /\ FreeStopSlots(w) # {} /\ ClientAvailable(w)
       => LET i == LowestFree(FreeStartSlots(w))
              c == LowestFree(FreeClientSlots(w))
              w1 == RunQueue(start(w, i, config, LowestFree(FreeStopSlots(w))))
          IN Rejected(w1, i, ERR_CTOR) /\ TornDown(w1, c)
               /\ w1.sockets = w.sockets

\* A start() has rejected with the socket's error after the failed attempt had
\* closed: the reconnect it scheduled is cancelled and the client torn down
C18_Witness ==
  \E i \in StartIds, c \in ClientIds :
    /\ starts[i].state = "rejected" /\ starts[i].err = ERR_WS
    /\ svc.client = 0 /\ svc.status = "idle"
    /\ clients[c].used /\ TornDown(World, c)
    /\ clients[c].connectionState = "disconnected"
    /\ clients[c].reconnectTimeoutId = 0

\* C19: a start() call made while the application id or the access token is
\* missing from the environment constructs no client, opens no socket and
\* sends no frame, whatever configuration it is given; it broadcasts 'error',
\* sends the configuration error to the UI and rejects with it.
C19_ConfigurationError ==
  LET w == W0 IN
  \A config \in Configs :
    /\ Missing(env.appId) \/ Missing(env.accessToken)
    /\ FreeStartSlots(w) # {} /\ FreeStopSlots(w) # {}
    => LET i == LowestFree(FreeStartSlots(w))
           w1 == RunQueue(start(w, i, config, LowestFree(FreeStopSlots(w))))
       IN /\ w1.clients = w.clients
          /\ w1.sockets = w.sockets
          /\ w1.svc.client = w.svc.client
          /\ Sent(w1) = <<>>
          /\ w1.svc.status = "error"
          /\ Shown(w1) = <<Entry("ui", 0, "status", "error", NoResult, ""),
                           Entry("ui", 0, "error", "", NoResult, ERR_CONFIG)>>
          /\ w1.starts[i].state = "rejected" /\ w1.starts[i].err = ERR_CONFIG

\* A start() has rejected with the configuration error; nothing was constructed
C19_Witness ==
  /\ Missing(env.appId) /\ ~Missing(env.accessToken)
  /\ \E i \in StartIds : starts[i].state = "rejected" /\ starts[i].err = ERR_CONFIG
  /\ svc.status = "error" /\ svc.client = 0
  /\ \A c \in ClientIds : ~clients[c].used
  /\ \A s \in SocketIds : ~sockets[s].used

\* Socket s opens, and later closes, each as a step of its own
OpenThenClose(w, s) ==
  LET w1 == RunQueue(onOpen([w EXCEPT !.sockets[s].readyState = OPEN], s))
  IN RunQueue(onClose([w1 EXCEPT !.sockets[s].readyState = CLOSED], s))

\* C21 (as stated): when a client that has used up its reconnection attempts
\* (state 'error', five attempts made) is connected again by a direct connect()
\* whose socket opens, and that connection then closes, the client schedules a
\* reconnect instead of going to 'error'.
C21_Original ==
  LET w == W0 IN
  \A c \in ClientIds :
    /\ w.clients[c].used
    /\ w.clients[c].connectionState = "error"
    /\ w.clients[c].reconnectAttempts = MAX_ATTEMPTS
    /\ SocketAvailable(w)
    => LET w1 == RunQueue(connect(w, c, NoWaiter))
           w2 == OpenThenClose(w1, w1.clients[c].ws)
       IN /\ w2.clients[c].connectionState = "reconnecting"
          /\ w2.clients[c].rtimers # <<>>

\* The first backoff delay and the later ones, in ms
BackoffTable == <<1000, 2000, 4000, 8000, 16000>>

\* C22: when the socket of a timer-driven reconnect opens, the session-start
\* frame is sent on it and the attempt counter is 0 when the step ends; an
\* unexpected close of that connection then schedules one attempt with the
\* first backoff delay (1 s) and counts it as attempt 1 of 5.
C22_ReconnectResetsCounter ==
  LET w == W0 IN
  \A s \in SocketIds :
    LET c == w.sockets[s].client IN
    /\ LiveSocket(w, s) /\ w.sockets[s].readyState = CONNECTING
    /\ w.sockets[s].waiter = [kind |-> "reconnect", id |-> c]
    /\ w.clients[c].ws = s
    => LET w1 == RunQueue(onOpen([w EXCEPT !.sockets[s].readyState = OPEN], s))
           w2 == RunQueue(onClose([w1 EXCEPT !.sockets[s].readyState = CLOSED], s))
       IN /\ w.clients[c].reconnectAttempts > 0
          /\ isConnected(w1, c)
          /\ w1.sockets[s].frames # <<>>
          /\ w1.sockets[s].frames[1].name = MESSAGE_NAMES.START
          /\ w1.clients[c].reconnectAttempts = 0
          /\ w2.clients[c].connectionState = "reconnecting"
          /\ w2.clients[c].reconnectAttempts = 1
          /\ w2.clients[c].rtimers = <<[delay |-> BackoffTable[1], cur |-> TRUE]>>

\* The connection of a reconnect made after two failed attempts has closed:
\* one timer with the first delay is pending and one attempt is counted
C22_Witness ==
  \E s \in SocketIds :
    LET c == sockets[s].client IN
    /\ sockets[s].used /\ sockets[s].waiter.kind = "reconnect"
    /\ sockets[s].settled = "resolved" /\ sockets[s].readyState = CLOSED
    /\ clients[c].connectionState = "reconnecting"
    /\ clients[c].reconnectAttempts = 1
    /\ clients[c].rtimers = <<[delay |-> 1000, cur |-> TRUE]>>

\* C23: the attempt counter of a client is always in 0..5; scheduling a
\* reconnect when it is k < 5 arms one timer of 1 s, 2 s, 4 s, 8 s, 16 s for
\* k = 0..4, which is min(1000 * 2^k, 30000) ms, and makes the counter k + 1;
\* at 5 no timer is armed and the counter stays 5.
C23_BackoffDelays ==
  LET w == W0 IN
  \A c \in ClientIds :
    w.clients[c].used =>
      LET k == w.clients[c].reconnectAttempts
          w1 == scheduleReconnect(w, c)
          n == Len(w1.clients[c].rtimers)
      IN /\ k \in 0..MAX_ATTEMPTS
         /\ \A j \in DOMAIN w.clients[c].rtimers :
              \E a \in 1..5 : w.clients[c].rtimers[j].delay = BackoffTable[a]
         /\ k < MAX_ATTEMPTS =>
              /\ n = Len(w.clients[c].rtimers) + 1
              /\ w1.clients[c].rtimers[n].delay = BackoffTable[k + 1]
              /\ w1.clients[c].rtimers[n].delay <= MAX_DELAY_MS
              /\ w1.clients[c].reconnectAttempts = k + 1
         /\ k = MAX_ATTEMPTS =>
              /\ w1.clients[c].rtimers = w.clients[c].rtimers
              /\ w1.clients[c].reconnectAttempts = MAX_ATTEMPTS
              /\ w1.clients[c].connectionState = "error"

\* The fifth attempt is scheduled: the counter is 5 and a 16 s timer is pending
C23_Witness ==
  \E c \in ClientIds :
    /\ clients[c].used
    /\ clients[c].reconnectAttempts = 5
    /\ clients[c].connectionState = "reconnecting"
    /\ clients[c].rtimers = <<[delay |-> 16000, cur |-> TRUE]>>


\* The worlds one event of the race of wait k leads to from w, before the
\* microtasks it queued run: a frame on the service's client, a grace timer
\* of the wait firing, the 10 s timer of the wait firing
WaitBranches(w, k) ==
  {handleMessage(w, w.svc.client, f) :
     f \in {g \in InFrames :
              /\ w.svc.client # 0
              /\ isConnected(w, w.svc.client)}}
  \cup {graceCallback([w EXCEPT !.stops[k].grace = @ - 1], k) :
     x \in {y \in {0} : w.stops[k].grace > 0}}
  \cup {timeoutCallback([w EXCEPT !.stops[k].ceiling = FALSE], k) :
     x \in {y \in {0} : w.stops[k].ceiling}}

\* The callbacks of wait k called directly, whatever is still registered
WaitCallbacks(w, k) ==
  {resultHandler(w, k, r) : r \in {ASRResult(TRUE, T12), ASRResult(FALSE, T1)}}
  \cup {statusHandler(w, k, st) : st \in {"done", "error", "processing"}}
  \cup {graceCallback(w, k), timeoutCallback(w, k)}

\* How many times the promise of wait k has been resolved in this step
Resolutions(w, k) ==
  Len(SelectSeq(w.queue, LAMBDA t : t.k = "stopCont" /\ t.id = k))

\* C24: the final-result wait of a stop() call resolves at most once: one
\* event of the race (a frame with a final result and 'done', a grace timer,
\* the 10 s timer) resolves a pending wait at most once, and once the wait is
\* resolved every callback of the race, in the same step or in a later one,
\* changes nothing.
C24_ResolvesOnce ==
  \A k \in StopIds :
    /\ stops[k].used /\ stops[k].resolved =>
         \A w1 \in WaitCallbacks(World, k) : w1 = World
    /\ LET w == W0 IN
       Pending(w, k) =>
         \A w1 \in WaitBranches(w, k) :
           /\ Resolutions(w1, k) <= 1
           /\ Resolutions(w1, k) = 1 <=> w1.stops[k].resolved
           /\ w1.stops[k].resolved =>
                /\ \A w2 \in WaitCallbacks(w1, k) : w2 = w1
                /\ \A w2 \in WaitBranches(w1, k) :
                     /\ Resolutions(w2, k) = 1
                     /\ w2.stops[k].branch = w1.stops[k].branch
                     /\ w2.stops[k].value = w1.stops[k].value

\* A wait resolved by the 10 s timer or by a final result while a grace timer
\* armed by an earlier 'done' is still to fire
C24_Witness ==
  \E k \in StopIds :
    /\ stops[k].used /\ stops[k].resolved
    /\ stops[k].branch \in {"ceiling", "final"}
    /\ stops[k].grace > 0

\* C25 (as stated): at the moment an event of the race resolves the wait,
\* neither listener of the wait is registered on the client any more, the 10 s
\* timer is cancelled and no grace timer of the wait is pending.
C25_Original ==
  LET w == W0 IN
  \A k \in StopIds :
    Pending(w, k) =>
      \A w1 \in WaitBranches(w, k) :
        w1.stops[k].resolved =>
          /\ \A c \in ClientIds :
               /\ \A j \in DOMAIN w1.clients[c].resultHandlers :
                    w1.clients[c].resultHandlers[j] # k
               /\ \A j \in DOMAIN w1.clients[c].statusHandlers :
                    w1.clients[c].statusHandlers[j] # k
          /\ ~w1.stops[k].ceiling
          /\ w1.stops[k].grace = 0


\* Frames the schema accepts whose header status is a number other than 0 and
\* the success code
ErrorStatusFrames ==
  {f \in GoodFrames :
     f.statusKind = "number" /\ f.status # 0 /\ f.status # SUCCESS_STATUS}

\* The events a client emitted in a step
Emitted(w) == SelectSeq(w.trace, LAMBDA e : e.kind = "emit")

\* C26: a well-formed frame whose header status is present and is neither 0
\* nor 20000000 makes the client emit exactly one event, an error carrying the
\* status message or the default text; no result and no status is emitted
\* whatever the frame's name is, and the client (connection state, session
\* flag, sequence counter, identifiers) and the sockets are left as they were.
C26_ErrorStatusFrame ==
  LET w == W0 IN
  \A s \in SocketIds : \A f \in ErrorStatusFrames :
    LiveSocket(w, s) /\ w.sockets[s].readyState = OPEN =>
      LET c == w.sockets[s].client
          w1 == handleMessage(w, c, f)
          w2 == RunQueue(w1)
      IN /\ Len(Emitted(w1)) = 1
         /\ Emitted(w1)[1].ev = "error"
         /\ Emitted(w1)[1].c = c
         /\ Emitted(w1)[1].err = IF f.hasMsg THEN ERR_SERVER ELSE ERR_STATUS
         /\ w1.clients[c] = w.clients[c]
         /\ w1.sockets = w.sockets
         /\ w1.stops = w.stops
         /\ w1.queue = <<>>
         /\ w2.clients[c] = w.clients[c]
         /\ w2.sockets = w.sockets
         /\ w2.svc.finalResult = w.svc.finalResult
         /\ w2.svc.lastResult = w.svc.lastResult

\* A stop() is waiting on an open connection: a completed frame with a final
\* text would resolve the wait, the same frame with an error status does not
C26_Witness ==
  LET w == W0 IN
  \E k \in StopIds :
    /\ Pending(w, k)
    /\ w.svc.client # 0 /\ isConnected(w, w.svc.client)
    /\ handleMessage(w, w.svc.client, Effective).stops[k].resolved
    /\ ~handleMessage(w, w.svc.client,
          [Effective EXCEPT !.statusKind = "number",
                            !.status = ERROR_STATUS]).stops[k].resolved

\* Task-failed frames with an absent or a success status
TaskFailedFrames ==
  {f \in GoodFrames :
     /\ f.name = MESSAGE_NAMES.TASK_FAILED
     /\ ~(f.statusKind = "number" /\ f.status # 0 /\ f.status # SUCCESS_STATUS)}

\* Frames the schema accepts with a name the client does not know
UnknownFrames ==
  {f \in GoodFrames :
     f.name \notin {MESSAGE_NAMES.TRANSCRIPTION_RESULT_CHANGED,
                    MESSAGE_NAMES.TRANSCRIPTION_COMPLETED,
                    MESSAGE_NAMES.TASK_FAILED}}

\* C27: a task-failed frame with an absent or success status makes the client
\* emit one error and then the status 'error', after which the service's
\* status is 'error'; the socket stays open, the connection state stays
\* 'connected' and no reconnect timer is armed. A frame with an unknown name
\* and such a status emits nothing and changes nothing.
C27_TaskFailedAndUnknown ==
  LET w == W0 IN
  \A s \in SocketIds :
    LiveSocket(w, s) /\ w.sockets[s].readyState = OPEN =>
      LET c == w.sockets[s].client IN
      /\ \A f \in TaskFailedFrames :
           LET w1 == handleMessage(w, c, f)
               w2 == RunQueue(w1)
           IN /\ Len(Emitted(w1)) = 2
              /\ Emitted(w1)[1].ev = "error"
              /\ Emitted(w1)[1].err = IF f.hasMsg THEN ERR_SERVER ELSE ERR_TASK
              /\ Emitted(w1)[2].ev = "status"
              /\ Emitted(w1)[2].status = "error"
              /\ w.clients[c].svcListeners => w2.svc.status = "error"
              /\ w2.sockets = w.sockets
              /\ w2.clients[c].connectionState = w.clients[c].connectionState
              /\ w2.clients[c].connectionState = "connected"
              /\ w2.clients[c].rtimers = w.clients[c].rtimers
              /\ w2.clients[c].ws = s
      /\ \A f \in UnknownFrames \ ErrorStatusFrames :
           handleMessage(w, c, f) = w

\* A listening session on an open connection, for which a task-failed frame
\* puts the service in 'error' with the connection still up
C27_Witness ==
  LET w == W0 IN
  \E c \in ClientIds :
    /\ w.svc.client = c /\ w.svc.status = "listening" /\ isConnected(w, c)
    /\ \E f \in TaskFailedFrames :
         LET w2 == RunQueue(handleMessage(w, c, f))
         IN w2.svc.status = "error" /\ isConnected(w2, c)
    /\ UnknownFrames \ ErrorStatusFrames # {}


\* The floatingWindow.sendError notifications of a step
ErrorsShown(w) == SelectSeq(Shown(w), LAMBDA e : e.ev = "error")

\* C28 (as stated): when the 30 s connection timeout of a socket awaited by
\* start() fires while the client is 'connecting', the socket is closed and
\* detached, the client's state becomes 'error', and the step, including the
\* rejection of start(), sends exactly one error notification to the UI.
C28_Original ==
  LET w == W0 IN
  \A s \in SocketIds :
    LET c == w.sockets[s].client IN
    /\ w.sockets[s].used /\ w.sockets[s].timeout
    /\ w.sockets[s].waiter.kind = "start" /\ w.sockets[s].settled = "no"
    /\ w.clients[c].connectionState = "connecting"
    => LET w1 == connectionTimeout(w, s)
           w2 == RunQueue(w1)
       IN /\ ~w1.sockets[s].attached
          /\ w1.sockets[s].readyState \in {CLOSING, CLOSED}
          /\ w1.clients[c].ws = 0
          /\ w1.clients[c].connectionState = "error"
          /\ Len(ErrorsShown(w2)) = 1

\* C29: when the client is not active (its state is not 'connected', or its
\* socket is not open, or the session-start frame has not been sent),
\* sendAudio and finishAudio change nothing: no frame is written, the
\* sequence counter and the connection state stay, and no event is emitted.
C29_InactiveAudioNoOp ==
  LET w == W0 IN
  \A c \in ClientIds :
    w.clients[c].used /\ ~(isConnected(w, c) /\ w.clients[c].sessionStarted) =>
      /\ finishAudio(w, c) = w
      /\ \A chunk \in Chunks : sendAudio(w, c, chunk) = w

\* The service's client is 'connected' with its session started, and its
\* socket is no longer open
C29_Witness ==
  \E c \in ClientIds :
    /\ clients[c].used /\ svc.client = c
    /\ clients[c].connectionState = "connected"
    /\ clients[c].sessionStarted
    /\ clients[c].ws # 0
    /\ sockets[clients[c].ws].readyState = CLOSING
    /\ svc.status = "listening"

\* C30 (as stated): among the audio-data frames written to one socket at most
\* one has the end flag set, and it is the last of them.
C30_Original ==
  \A s \in SocketIds :
    sockets[s].used =>
      \A j \in DOMAIN AudioFrames(s) :
        AudioFrames(s)[j].is_end => j = Len(AudioFrames(s))


\* C31 (as stated): disconnect() on a client in any state leaves it
\* 'disconnected' with no socket, no pending reconnect timer, attempt counter
\* 0 and session flag false, and emits the status 'idle' exactly once; the
\* session-stop frame is written if and only if the socket was open and the
\* session started, as the last frame of that socket, which is then detached.
C31_Original ==
  LET w == W0 IN
  \A c \in ClientIds :
    w.clients[c].used =>
      LET s == w.clients[c].ws
          active == /\ s # 0 /\ w.sockets[s].readyState = OPEN
                    /\ w.clients[c].sessionStarted
          w1 == disconnect(w, c)
          statuses == SelectSeq(Emitted(w1), LAMBDA e : e.ev = "status")
      IN /\ w1.clients[c].connectionState = "disconnected"
         /\ w1.clients[c].ws = 0
         /\ w1.clients[c].rtimers = <<>>
         /\ w1.clients[c].reconnectAttempts = 0
         /\ ~w1.clients[c].sessionStarted
         /\ Len(statuses) = 1 /\ statuses[1].status = "idle" /\ statuses[1].c = c
         /\ s # 0 =>
              /\ ~w1.sockets[s].attached
              /\ w1.sockets[s].readyState \in {CLOSING, CLOSED}
              /\ IF active
                 THEN /\ Len(w1.sockets[s].frames) = Len(w.sockets[s].frames) + 1
                      /\ w1.sockets[s].frames[Len(w1.sockets[s].frames)].name
                           = MESSAGE_NAMES.STOP
                 ELSE w1.sockets[s].frames = w.sockets[s].frames
         /\ \A x \in SocketIds : x # s => w1.sockets[x] = w.sockets[x]


\* Result-changed and result-completed frames the schema accepts, with an
\* absent or success status and a payload the result schema accepts
ResultFrames ==
  {f \in GoodFrames :
     /\ f.name \in {Changed, Completed}
     /\ ~(f.statusKind = "number" /\ f.status # 0 /\ f.status # SUCCESS_STATUS)
     /\ transcriptionResultPayloadSchema(f)}

\* The text the claim names: result.text when the field is present, otherwise
\* the sentences' texts in order; empty when there is no result object
StatedText(f) ==
  IF f.result.kind # "object" THEN <<>>
  ELSE IF f.result.hasText THEN f.result.text
  ELSE IF f.result.hasSentences THEN Join(f.result.sentences)
  ELSE <<>>

\* C32 (as stated): for a result-changed or result-completed frame with a
\* valid payload the client emits one result whose text is result.text when
\* that field is present and otherwise the concatenation of the sentences'
\* texts, final exactly for a completed frame; it emits no result when that
\* text is empty or there is no result object; a completed frame emits the
\* status 'done' in every case.
C32_Original ==
  LET w == W0 IN
  \A s \in SocketIds : \A f \in ResultFrames :
    LiveSocket(w, s) /\ w.sockets[s].readyState = OPEN =>
      LET c == w.sockets[s].client
          w1 == handleMessage(w, c, f)
          results == SelectSeq(Emitted(w1), LAMBDA e : e.ev = "result")
          statuses == SelectSeq(Emitted(w1), LAMBDA e : e.ev = "status")
      IN /\ IF StatedText(f) = <<>> THEN results = <<>>
            ELSE /\ Len(results) = 1
                 /\ results[1].result = ASRResult(f.name = Completed, StatedText(f))
         /\ IF f.name = Completed
            THEN Len(statuses) = 1 /\ statuses[1].status = "done"
            ELSE statuses = <<>>


\* The credentials start(config) is said to use: the override when given,
\* otherwise the value of the environment
EffectiveAppId(config) == Override(config.appId, env.appId)
EffectiveAccessToken(config) == Override(config.accessToken, env.accessToken)

\* C33 (as stated): start(config) called on an idle coordinator rejects with
\* the configuration error if and only if the effective application id or the
\* effective access token is missing; otherwise it goes on to construct its
\* client and broadcast 'connecting'.
C33_Original ==
  LET w == W0 IN
  \A config \in Configs :
    /\ w.svc.status = "idle"
    /\ FreeStartSlots(w) # {} /\ FreeStopSlots(w) # {}
    /\ ClientAvailable(w) /\ SocketAvailable(w)
    => LET i == LowestFree(FreeStartSlots(w))
           w1 == RunQueue(start(w, i, config, LowestFree(FreeStopSlots(w))))
           absent == \/ Missing(EffectiveAppId(config))
                     \/ Missing(EffectiveAccessToken(config))
           statuses == SelectSeq(Shown(w1), LAMBDA e : e.ev = "status")
       IN /\ (w1.starts[i].state = "rejected" /\ w1.starts[i].err = ERR_CONFIG)
               <=> absent
          /\ ~absent => statuses # <<>> /\ statuses[1].status = "connecting"


\* C34 (as stated): while a stop() call waits for its final result, a call of
\* processAudioChunk writes no frame, whatever has happened to the connection
\* since stop() was called.
C34_Original ==
  LET w == W0 IN
  \A chunk \in Chunks :
    (\E k \in StopIds : Pending(w, k)) =>
      LET w1 == RunQueue(processAudioChunk(w, chunk))
      IN /\ Sent(w1) = <<>>
         /\ w1.sockets = w.sockets


\* C35 (as stated): no start() call is left awaiting a connect() promise that
\* nothing can settle any more (its socket has no handler attached and no
\* connection timer that would still act), so every start() can still settle.
C35_Original ==
  /\ HungStarts(World) = {}
  /\ \A i \in StartIds : starts[i].state # "hung"


\* The world a later step starts from
NextStep(w) == GC([w EXCEPT !.trace = <<>>])

\* C36 (as stated): when a start() installs a new client while the wait of an
\* earlier stop() is still pending, and that wait is then resolved by its 10 s
\* timer, the continuation of the old stop() leaves the new client installed
\* and untouched and the coordinator's status as it was.
C36_Original ==
  LET w == W0 IN
  \A k \in StopIds : \A config \in ExampleConfigs :
    /\ Pending(w, k) /\ w.stops[k].ceiling
    /\ ~loadASRConfigThrows
    /\ FreeStartSlots(w) # {} /\ FreeStopSlots(w) # {}
    /\ ClientAvailable(w) /\ SocketAvailable(w)
    => LET i == LowestFree(FreeStartSlots(w))
           w1 == NextStep(RunQueue(start(w, i, config, LowestFree(FreeStopSlots(w)))))
           new == w1.svc.client
       IN /\ new # 0 /\ new # w.svc.client
          /\ Pending(w1, k) /\ w1.stops[k].ceiling
          => LET w2 == RunQueue(timeoutCallback(
                          [w1 EXCEPT !.stops[k].ceiling = FALSE], k))
             IN /\ w2.stops[k].state = "returned"
                /\ w2.svc.client = new
                /\ w2.svc.status = w1.svc.status
                /\ w2.clients[new] = w1.clients[new]
                /\ w2.sockets = w1.sockets


\* The worlds one event of client c (a frame, a socket close or error, its
\* connection timer, a reconnect timer) leads to from w
EventsOf(w, c) ==
  {RunQueue(handleMessage(w, c, f)) :
     s \in {x \in SocketIds : /\ LiveSocket(w, x) /\ w.sockets[x].client = c
                              /\ w.sockets[x].readyState = OPEN},
     f \in InFrames}
  \cup {RunQueue(onClose([w EXCEPT !.sockets[s].readyState = CLOSED], s)) :
     s \in {x \in SocketIds : /\ LiveSocket(w, x) /\ w.sockets[x].client = c
                              /\ w.sockets[x].readyState # CONNECTING}}
  \cup {RunQueue(onOpen([w EXCEPT !.sockets[s].readyState = OPEN], s)) :
     s \in {x \in SocketIds : /\ LiveSocket(w, x) /\ w.sockets[x].client = c
                              /\ w.sockets[x].readyState = CONNECTING}}
  \cup {RunQueue(connectionTimeout(w, s)) :
     s \in {x \in SocketIds : /\ w.sockets[x].used /\ w.sockets[x].client = c
                              /\ w.sockets[x].timeout}}
  \cup {RunQueue(Reconnect(w, c)) :
     x \in {y \in {0} : w.clients[c].rtimers # <<>> /\ SocketAvailable(w)}}

\* No event of client c changes the coordinator's status or results or
\* reaches the UI
Quiet(w, c) ==
  \A w1 \in EventsOf(w, c) : w1.svc = w.svc /\ Shown(w1) = <<>>

\* C37 (as stated): a client that is no longer the coordinator's client,
\* because cleanup() dropped it or because a later start() installed another
\* one, cannot change the coordinator's status or results or reach the UI by
\* any of its events.
C37_Original ==
  LET w == W0 IN
  /\ \A c \in ClientIds :
       w.clients[c].used /\ w.svc.client # c => Quiet(w, c)
  /\ \A config \in ExampleConfigs :
       /\ w.svc.client # 0
       /\ ~loadASRConfigThrows
       /\ FreeStartSlots(w) # {} /\ FreeStopSlots(w) # {}
       /\ ClientAvailable(w) /\ SocketAvailable(w)
       => LET old == w.svc.client
              w1 == NextStep(RunQueue(start(w, LowestFree(FreeStartSlots(w)), config,
                                            LowestFree(FreeStopSlots(w)))))
          IN w1.svc.client # old /\ w1.clients[old].used => Quiet(w1, old)


\* The first frame written to socket s of world w is the session-start frame
StartFirst(w, s) ==
  w.sockets[s].frames # <<>> =>
    w.sockets[s].frames[1].name = MESSAGE_NAMES.START

\* C38: on every socket the first frame written is the session-start frame,
\* so no audio-data or session-stop frame precedes it, whichever of sendAudio,
\* finishAudio and disconnect is called in whatever state; and a client that
\* is active (connected, socket open, session started) has a socket whose
\* first frame is the session-start frame.
C38_StartFrameFirst ==
  LET w == W0 IN
  /\ \A s \in SocketIds : StartFirst(World, s)
  /\ \A c \in ClientIds :
       w.clients[c].used =>
         /\ isConnected(w, c) /\ w.clients[c].sessionStarted =>
              /\ w.sockets[w.clients[c].ws].frames # <<>>
              /\ StartFirst(w, w.clients[c].ws)
         /\ \A w1 \in {sendAudio(w, c, chunk) : chunk \in Chunks}
                      \cup {finishAudio(w, c), disconnect(w, c)} :
              \A s \in SocketIds : StartFirst(w1, s)

\* A connection that carried the session-start frame, audio and, last, the
\* session-stop frame
C38_Witness ==
  \E s \in SocketIds :
    /\ sockets[s].used
    /\ Len(sockets[s].frames) >= 3
    /\ sockets[s].frames[1].name = MESSAGE_NAMES.START
    /\ sockets[s].frames[2].name = MESSAGE_NAMES.AUDIO_DATA
    /\ sockets[s].frames[Len(sockets[s].frames)].name = MESSAGE_NAMES.STOP


\* ------------------------------------------------- the recorder, on its own
\* The owner of an AudioRecorder calls start(), stop() and destroy() at any
\* time; getUserMedia settles when the user or the browser decides.
InitRecorder ==
  /\ svc = [client |-> 0, status |-> "idle", finalResult |-> NoResult,
            lastResult |-> NoResult]
  /\ clients = [c \in ClientIds |-> FreeClient]
  /\ sockets = [s \in SocketIds |-> FreeSocket]
  /\ stops = [k \in StopIds |-> FreeStop]
  /\ starts = [i \in StartIds |-> FreeStart]
  /\ env = [appId |-> "envApp", accessToken |-> "envTok", resourceId |-> "unset"]
  /\ statusLog = <<>>
  /\ logging = FALSE
  /\ budget = [start |-> 0, open |-> 0, connect |-> 0]
  /\ rec \in {NewRecorder(supported) : supported \in BOOLEAN}

\* recorder.start(), up to `await navigator.mediaDevices.getUserMedia(...)`
RecStart ==
  /\ rec.awaiting < MaxAwaiting
  /\ rec' =
       LET r == [rec EXCEPT !.stopped = FALSE]
       IN IF r.isRecording
          THEN setState(r, [error |-> AUDIO_ERRORS.ALREADY_RECORDING])
          ELSE LET r1 == setState(r, [error |-> "null"])
               IN IF ~r1.supported
                  THEN setState(r1, [error |-> AUDIO_ERRORS.AUDIO_CONTEXT_NOT_SUPPORTED])
                  ELSE [r1 EXCEPT !.awaiting = @ + 1]
  /\ UNCHANGED <<svc, clients, sockets, stops, starts, env, statusLog, logging, budget>>

\* getUserMedia resolves for one of the suspended start() calls, and the call
\* runs to its end; the stream becomes the pipeline of the lowest free slot.
\* contextThrows: `new AudioContextClass({sampleRate})` throws (the rate is not
\* supported, or no more contexts can be created).  The node constructors are
\* called with a fresh stream and constant valid arguments and do not throw.
GumResolve(contextThrows) ==
  /\ rec.awaiting > 0
  /\ \E p \in 1..MaxPipes : rec.pipes[p].stream = "none"
  /\ rec' =
       LET p == LowestFree({q \in 1..MaxPipes : rec.pipes[q].stream = "none"})
           r1 == [rec EXCEPT !.awaiting = @ - 1, !.pipes[p].stream = "live"]
       IN IF contextThrows THEN recorderCatch(r1, "DOMException")
          ELSE setState([r1 EXCEPT !.pipes[p] = [stream |-> "live", context |-> "open",
                                                 connected |-> TRUE],
                                   !.resources = p],
                        [isRecording |-> TRUE])
  /\ UNCHANGED <<svc, clients, sockets, stops, starts, env, statusLog, logging, budget>>

\* getUserMedia rejects for one of the suspended start() calls
GumReject(thrown) ==
  /\ rec.awaiting > 0
  /\ rec' = recorderCatch([rec EXCEPT !.awaiting = @ - 1], thrown)
  /\ UNCHANGED <<svc, clients, sockets, stops, starts, env, statusLog, logging, budget>>

\* recorder.stop()
RecStop ==
  /\ rec' =
       LET r == IF ~rec.isRecording THEN rec
                ELSE setState(cleanupResources(rec), [isRecording |-> FALSE])
       IN [r EXCEPT !.stopped = TRUE, !.delivered = 0]
  /\ UNCHANGED <<svc, clients, sockets, stops, starts, env, statusLog, logging, budget>>

\* recorder.destroy(): stop(), then the callbacks are dropped
RecDestroy ==
  /\ rec' =
       LET r == IF ~rec.isRecording THEN rec
                ELSE setState(cleanupResources(rec), [isRecording |-> FALSE])
       IN [r EXCEPT !.onStateChange = FALSE, !.stopped = TRUE, !.delivered = 0]
  /\ UNCHANGED <<svc, clients, sockets, stops, starts, env, statusLog, logging, budget>>

\* processorNode.onaudioprocess of pipeline p, whose processor node is
\* connected to a running graph: onChunk(pcmBuffer)
AudioProcess(p) ==
  /\ rec.pipes[p].connected
  /\ rec.pipes[p].context = "open"
  /\ rec.pipes[p].stream = "live"
  /\ rec' = [rec EXCEPT !.delivered = IF @ < MaxDelivered THEN @ + 1 ELSE @]
  /\ UNCHANGED <<svc, clients, sockets, stops, starts, env, statusLog, logging, budget>>

NextRecorder ==
  \/ RecStart
  \/ \E contextThrows \in BOOLEAN : GumResolve(contextThrows)
  \/ \E thrown \in {"NotAllowedError", "PermissionDeniedError", "NotFoundError",
                    "DevicesNotFoundError", "DOMException", "Error", "other"} :
       GumReject(thrown)
  \/ RecStop
  \/ RecDestroy
  \/ \E p \in 1..MaxPipes : AudioProcess(p)

SpecRecorder == InitRecorder /\ [][NextRecorder]_vars

\* A capture pipeline (media stream and audio context) is live
Live(r, p) == r.pipes[p].stream = "live" /\ r.pipes[p].context = "open"

\* Pipeline p delivers audio chunks
Capturing(r, p) == r.pipes[p].connected /\ Live(r, p)

\* C39 (as stated): at most one capture pipeline is live and it is the one the
\* recorder holds; isRecording is true exactly when the recorder holds
\* resources; and after stop() has returned no chunk callback fires, and no
\* pipeline is capturing, until start() is called again.
C39_Original ==
  /\ Cardinality({p \in 1..MaxPipes : Live(rec, p)}) <= 1
  /\ \A p \in 1..MaxPipes : Live(rec, p) => rec.resources = p
  /\ rec.isRecording <=> rec.resources # 0
  /\ rec.stopped =>
       /\ rec.delivered = 0
       /\ \A p \in 1..MaxPipes : ~Capturing(rec, p)
=============================================================================
